---------------------------- MODULE Spec2Model ----------------------------
(***************************************************************************)
(* A model of BrowserHelper (element discovery, visibility and occlusion,  *)
(* coordinate resolution, foreground judge, analysis caches) of the SeeAct *)
(* Chrome extension.                                                       *)
(*                                                                         *)
(* The page is a table of elements.  Every element lives in exactly one    *)
(* root: the top document, the document of an iframe, or a shadow root.    *)
(* A root is named by the element that owns it (the iframe element or the  *)
(* shadow-root host); the top document is TopDoc.                          *)
(*                                                                         *)
(* Lengths are in CSS pixels.  Bounding boxes of the model have even       *)
(* widths and heights, so that the centre x + width / 2 is an integer.     *)
(***************************************************************************)
EXTENDS Integers, Sequences, FiniteSets, TLC

VARIABLES
    dom,        \* the page: element id -> element (style, geometry, position in the forest)
    layout,     \* the hit-test oracle: <<search context, x, y>> -> foremost element
    viewport,   \* [width, height] of the top window
    cachedIframeTree,                       \* BrowserHelper.cachedIframeTree
    cachedShadowRootHostChildrenOfMainDoc,  \* BrowserHelper.cachedShadowRootHostChildrenOfMainDoc
    treeBuilds, \* history: IframeTree constructions since the last resetElementAnalysis
    documentHostChain,  \* the documentHostChain property of the elements that have one
    call,       \* the operation performed by the last step, with its arguments and its return value
    activeElement,  \* root -> the activeElement of the document or shadow root (null: none)
    sidePanel,  \* the fields of the SidePanelManager and the properties of its elements
    portInbox,  \* the messages the agent controller sent on the port, not yet given to its listener
    mutex,      \* SidePanelManager.mutex: the callbacks given to runExclusive, the holder first
    events      \* history: the number of messages sent and of clicks so far

\* what the page analysis never writes
panelRuntime == <<portInbox, mutex, events>>
otherParts == <<activeElement, sidePanel, panelRuntime>>

vars == <<dom, layout, viewport, cachedIframeTree,
          cachedShadowRootHostChildrenOfMainDoc, treeBuilds, documentHostChain, call,
          otherParts>>

-----------------------------------------------------------------------------
(* Values *)

\* null: no element
NULL == 0
\* the top-level document, also the default search context (searchDom undefined)
TopDoc == 0
\* getIframeContent's null: no accessible document
NoDoc == -1
\* undefined, for the two caches
Undefined == [defined |-> FALSE]

\* the fields of a SidePanelManager as its class initialises them, with the
\* elements of a page whose controls are enabled; onDisconnectPending: the
\* port was disconnected and its onDisconnect listener has not run yet
SidePanelFields ==
    [state |-> "IDLE", serviceWorkerPort |-> "undefined", onDisconnectPending |-> FALSE,
     serviceWorkerReady |-> FALSE,
     cachedMonitorMode |-> TRUE, shouldWipeActionHistoryOnTaskStart |-> FALSE,
     historyList |-> <<>>, taskSpecField |-> <<>>, startButtonDisabled |-> FALSE,
     killButtonDisabled |-> FALSE, pendingActionDiv |-> [textContent |-> "", title |-> ""],
     monitorFeedbackField |-> "", monitorFeedbackFieldDisabled |-> FALSE,
     monitorApproveButtonDisabled |-> FALSE, monitorRejectButtonDisabled |-> FALSE]

\* no element has the focus
NothingFocused == activeElement = [root \in {0} |-> 0]

\* the parts the page analysis never reads are at rest: no element has the
\* focus, no side panel is open
PanelRuntimeAtRest ==
    /\ portInbox = <<>>
    /\ mutex = <<>>
    /\ events = 0

OtherPartsAtRest ==
    /\ NothingFocused
    /\ sidePanel = SidePanelFields
    /\ PanelRuntimeAtRest

Elems == DOMAIN dom

Rect(x, y, w, h) == [x |-> x, y |-> y, width |-> w, height |-> h]

\* a frame context with no embedding iframe: new IframeNode(null, window)
TopNode == [iframe |-> NULL, offset |-> [x |-> 0, y |-> 0]]

-----------------------------------------------------------------------------
(* DOM queries *)

RECURSIVE contains(_, _)
\* Node.contains: other is node or a descendant of node in the same tree.
\* contains(null) is false.  parent never crosses a shadow root or a document.
contains(node, other) ==
    IF other = NULL THEN FALSE
    ELSE IF other = node THEN TRUE
    ELSE contains(node, dom[other].parent)

\* element.children, in document order
children(e) == {c \in Elems : dom[c].parent = e}

isIframe(e) == dom[e].tag = "iframe"

\* the root is a shadow root exactly when its owner is a shadow-root host
isShadowRoot(root) == root # TopDoc /\ dom[root].shadowRoot

\* reading the document of a cross-origin iframe throws a SecurityError
accessThrows(iframe) == ~dom[iframe].accessible

\* a variant without the try/catch: the access error reaches the caller
getIframeContentUncaught(iframe) ==
    [doc |-> IF accessThrows(iframe) THEN NoDoc ELSE iframe, threw |-> accessThrows(iframe)]

\* the document of the iframe, or null when the access throws; threw tells
\* whether an exception leaves the function
getIframeContent(iframe) ==
    [doc |-> IF accessThrows(iframe) THEN NoDoc ELSE iframe, threw |-> FALSE]

-----------------------------------------------------------------------------
(* Hit testing *)

\* The element the page shows foremost at (x, y) of the search context; null
\* outside the viewport.  layout gives the element the function ends with,
\* after its descent into the shadow roots and the iframes at the point; the
\* descent itself, and the caches it fills when they are undefined, are not
\* part of the model.
actualElementFromPoint(x, y, searchDom) ==
    IF x < 0 \/ y < 0 \/ x >= viewport.width \/ y >= viewport.height THEN NULL
    ELSE IF <<searchDom, x, y>> \in DOMAIN layout THEN layout[<<searchDom, x, y>>]
    ELSE NULL

\* the five points isBuriedInBackground samples, in the order it samples them
queryPointsOf(r) ==
    << <<r.x + 1, r.y + 1>>, <<r.x + r.width - 1, r.y + 1>>,
       <<r.x + 1, r.y + r.height - 1>>, <<r.x + r.width - 1, r.y + r.height - 1>>,
       <<r.x + r.width \div 2, r.y + r.height \div 2>> >>

\* the search context isBuriedInBackground hit-tests in
searchContextOf(iframeNode) ==
    IF iframeNode.iframe # NULL /\ getIframeContent(iframeNode.iframe).doc # NoDoc
    THEN getIframeContent(iframeNode.iframe).doc
    ELSE TopDoc

RECURSIVE buriedAtAll(_, _, _, _)
\* a variant that samples the centre point alone
buriedAtCentreOnly(element, searchContext, queryPoints, i) ==
    ~contains(element, actualElementFromPoint(queryPoints[Len(queryPoints)][1],
                                              queryPoints[Len(queryPoints)][2], searchContext))

\* the loop of isBuriedInBackground from point i on: it stops at the first
\* point where the element is in the foreground
buriedAtAll(element, searchContext, queryPoints, i) ==
    IF i > Len(queryPoints) THEN TRUE
    ELSE IF contains(element,
                     actualElementFromPoint(queryPoints[i][1], queryPoints[i][2], searchContext))
         THEN FALSE
         ELSE buriedAtAll(element, searchContext, queryPoints, i + 1)

\* a variant that samples the points of every element, whatever its tag and size
isBuriedAtWithoutExemptions(element, iframeNode, queryPoints) ==
    buriedAtAll(element, searchContextOf(iframeNode), queryPoints, 1)

\* the documents isBuriedInBackground hit-tests in: none when it returns
\* before the loop, else the search context (the loop samples at least one point)
documentsHitTested(element, iframeNode) ==
    LET boundRect == dom[element].rect
        tag == dom[element].tag
    IN  IF boundRect.width = 0 \/ boundRect.height = 0 THEN {}
        ELSE IF tag = "select" \/ (tag = "input" /\ dom[element].type = "checkbox") THEN {}
        ELSE {searchContextOf(iframeNode)}

\* isBuriedInBackground with the sampled points given
isBuriedAt(element, iframeNode, queryPoints) ==
    LET boundRect == dom[element].rect
        tag == dom[element].tag
    IN  IF boundRect.width = 0 \/ boundRect.height = 0 THEN FALSE
        ELSE IF tag = "select" \/ (tag = "input" /\ dom[element].type = "checkbox") THEN FALSE
        ELSE buriedAtAll(element, searchContextOf(iframeNode), queryPoints, 1)

isBuriedInBackground(element, iframeNode) ==
    isBuriedAt(element, iframeNode, queryPointsOf(dom[element].rect))

isFullyOutsideViewport(element, iframeNode) ==
    LET elemRect == dom[element].rect
        elemXRelToViewport == elemRect.x + iframeNode.offset.x
        elemYRelToViewport == elemRect.y + iframeNode.offset.y
    IN  \/ elemXRelToViewport + elemRect.width <= 0
        \/ elemYRelToViewport + elemRect.height <= 0
        \/ elemXRelToViewport >= viewport.width
        \/ elemYRelToViewport >= viewport.height

-----------------------------------------------------------------------------
(* Visibility *)

\* a variant that reads the computed style and never the bounding box
seemsInvisibleByComputedStyleOnly(element) ==
    LET s == dom[element]
        byAttr == s.hidden \/ s.display = "none" \/ s.visibility = "hidden"
        bySize == IF ~s.shadowRoot
                  THEN byAttr \/ s.cssHeight = "0px" \/ s.cssWidth = "0px"
                  ELSE byAttr
    IN  IF s.tag # "input"
        THEN bySize \/ s.cssHeight = "1px" \/ s.cssWidth = "1px" \/ s.opacity = "0"
        ELSE bySize

\* a variant that reads neither the hidden attribute nor the display
seemsInvisibleWhateverAttribute(element) ==
    LET s == dom[element]
        byAttr == s.visibility = "hidden"
        bySize == IF ~s.shadowRoot
                  THEN byAttr \/ s.cssHeight = "0px" \/ s.cssWidth = "0px"
                       \/ s.rect.width = 0 \/ s.rect.height = 0
                  ELSE byAttr
    IN  IF s.tag # "input"
        THEN bySize \/ s.cssHeight = "1px" \/ s.cssWidth = "1px" \/ s.opacity = "0"
        ELSE bySize

\* a variant that applies the zero-size step to shadow-root hosts as well
seemsInvisibleHostsIncluded(element) ==
    LET s == dom[element]
        byAttr == s.hidden \/ s.display = "none" \/ s.visibility = "hidden"
        bySize == byAttr \/ s.cssHeight = "0px" \/ s.cssWidth = "0px"
                  \/ s.rect.width = 0 \/ s.rect.height = 0
    IN  IF s.tag # "input"
        THEN bySize \/ s.cssHeight = "1px" \/ s.cssWidth = "1px" \/ s.opacity = "0"
        ELSE bySize

\* the first three steps of calcIsHidden: attribute and style, zero size
\* (skipped for a shadow-root host), 1px or transparent (skipped for an input)
seemsInvisibleByStyle(element) ==
    LET s == dom[element]
        byAttr == s.hidden \/ s.display = "none" \/ s.visibility = "hidden"
        bySize == IF ~s.shadowRoot
                  THEN byAttr \/ s.cssHeight = "0px" \/ s.cssWidth = "0px"
                       \/ s.rect.width = 0 \/ s.rect.height = 0
                  ELSE byAttr
    IN  IF s.tag # "input"
        THEN bySize \/ s.cssHeight = "1px" \/ s.cssWidth = "1px" \/ s.opacity = "0"
        ELSE bySize

\* a variant that takes the display 'inline' alone for an inline display
hasInlineExactly(display) == display = "inline"

\* elemComputedStyle.display.indexOf("inline") !== -1, on the display values of the model
hasInline(display) == display \in {"inline", "inline-block"}

\* doesElemSeemInvisible when calcIsHidden reaches the inline override: the
\* style steps, then the occlusion test for an element that is not yet hidden,
\* not a container and not fully outside the viewport
seemsInvisibleBeforeOverride(element, iframeNode, isDocHostElem) ==
    LET byStyle == seemsInvisibleByStyle(element)
    IN  IF ~byStyle /\ ~isDocHostElem /\ ~isFullyOutsideViewport(element, iframeNode)
        THEN isBuriedInBackground(element, iframeNode)
        ELSE byStyle

RECURSIVE calcIsHidden(_, _, _)
calcIsHidden(element, iframeNode, isDocHostElem) ==
    LET afterBuried == seemsInvisibleBeforeOverride(element, iframeNode, isDocHostElem)
    IN  IF afterBuried /\ hasInline(dom[element].display)
        THEN ~(\E child \in children(element) : ~calcIsHidden(child, iframeNode, FALSE))
        ELSE afterBuried

-----------------------------------------------------------------------------
(* Sequences *)

RECURSIVE SortedSeq(_)
\* the elements of a set of ids in document order (ids grow in document order)
SortedSeq(S) ==
    IF S = {} THEN <<>>
    ELSE LET m == CHOOSE x \in S : \A y \in S : x <= y
         IN  <<m>> \o SortedSeq(S \ {m})

Range(s) == {s[i] : i \in DOMAIN s}

\* the element of a one-element set.  The value of a call is bound once, as
\* v in TheOne({F(v) : v \in {call}}), where F uses it several times.
TheOne(S) == CHOOSE v \in S : TRUE

-----------------------------------------------------------------------------
(* IframeTree: the forest of frame contexts *)

\* the iframe elements a scan of the document finds (a scan of a document
\* does not enter its shadow roots)
iframesOfDocument(doc) ==
    SortedSeq({e \in Elems : isIframe(e) /\ dom[e].root = doc})

RECURSIVE hasIframeNode(_)
\* iframe gets a node: it is in the top document, or in the accessible
\* document of an iframe that has a node
hasIframeNode(iframe) ==
    /\ isIframe(iframe)
    /\ \/ dom[iframe].root = TopDoc
       \/ /\ isIframe(dom[iframe].root)
          /\ ~accessThrows(dom[iframe].root)
          /\ hasIframeNode(dom[iframe].root)

RECURSIVE coordsOffsetFromViewport(_)
\* a frame context's offset: its parent's offset plus the position of its
\* embedding iframe element in the parent
coordsOffsetFromViewport(iframe) ==
    IF iframe = NULL THEN [x |-> 0, y |-> 0]
    ELSE LET up == coordsOffsetFromViewport(dom[iframe].root)
         IN  [x |-> up.x + dom[iframe].rect.x, y |-> up.y + dom[iframe].rect.y]

IframeNode(iframe) ==
    [iframe |-> iframe,
     children |-> IF iframe = NULL \/ ~accessThrows(iframe)
                  THEN iframesOfDocument(iframe) ELSE <<>>,
     offset |-> coordsOffsetFromViewport(iframe)]

\* new IframeTree(window): the forest of the page as it is now; nodes[NULL] is the root
IframeTree ==
    [defined |-> TRUE,
     nodes |-> [c \in {NULL} \cup {f \in Elems : hasIframeNode(f)} |-> IframeNode(c)]]

-----------------------------------------------------------------------------
(* The two caches *)

\* a variant that constructs a new tree on every call
fetchAndRebuildIframeTree ==
    [tree |-> IframeTree, built |-> 1]

\* the tree fetchAndCacheIframeTree returns and leaves in the cache, and the
\* number of trees it constructs
fetchAndCacheIframeTree ==
    IF ~cachedIframeTree.defined
    THEN [tree |-> IframeTree, built |-> 1]
    ELSE [tree |-> cachedIframeTree, built |-> 0]

fetchElementsByCss(selector, root) ==
    SortedSeq({e \in Elems : dom[e].root = root /\ (selector = "*" \/ selector \in dom[e].matches)})

initializeCacheOfShadowRootHostChildrenOfMainDoc ==
    [defined |-> TRUE,
     hosts |-> SelectSeq(fetchElementsByCss("*", TopDoc), LAMBDA e : dom[e].shadowRoot)]

\* a variant of resetElementAnalysis that keeps the list of shadow-root hosts
resetIframeTreeOnly ==
    [tree |-> Undefined, hosts |-> cachedShadowRootHostChildrenOfMainDoc]

\* the two caches after resetElementAnalysis
resetElementAnalysis ==
    [tree |-> Undefined, hosts |-> Undefined]

-----------------------------------------------------------------------------
(* Element discovery *)

\* the selectors of a discovery pass, in the order they are applied
cssSelectors == <<"a", "[onclick]">>

calcIsDisabled(element) == dom[element].disabled

\* a variant of the filter that looks at the viewport alone
elemFilterByViewportOnly(elem, iframeNode, excludeElemsOutsideViewport) ==
    ~(excludeElemsOutsideViewport /\ isFullyOutsideViewport(elem, iframeNode))

\* the elemFilter of getInteractiveElements
elemFilter(elem, iframeNode, excludeElemsOutsideViewport) ==
    ~(calcIsDisabled(elem)
      \/ (excludeElemsOutsideViewport /\ isFullyOutsideViewport(elem, iframeNode)))

\* Set.add, on the insertion-ordered content of the set
addToSet(results, elem) ==
    IF elem \in Range(results) THEN results ELSE Append(results, elem)

RECURSIVE addAllToSet(_, _, _)
addAllToSet(results, elems, i) ==
    IF i > Len(elems) THEN results
    ELSE addAllToSet(addToSet(results, elems[i]), elems, i + 1)

RECURSIVE matchesOfSelectors(_, _, _, _, _)
\* the selector matches of the scope that pass the filter and are not hidden,
\* for the selectors from i on
matchesOfSelectors(results, root, iframeNode, exclude, i) ==
    IF i > Len(cssSelectors) THEN results
    ELSE LET found == SelectSeq(fetchElementsByCss(cssSelectors[i], root),
                                LAMBDA e : /\ elemFilter(e, iframeNode, exclude)
                                           /\ ~calcIsHidden(e, iframeNode, FALSE))
         IN  matchesOfSelectors(addAllToSet(results, found, 1), root, iframeNode, exclude, i + 1)

\* the elements of the current scope: selector matches, then the elements with
\* the onclick property
currScopeResults(root, iframeNode, exclude) ==
    LET clickableElementsBasedOnProperty ==
            SelectSeq(fetchElementsByCss("*", root),
                      LAMBDA e : /\ dom[e].onclick
                                 /\ elemFilter(e, iframeNode, exclude)
                                 /\ ~calcIsHidden(e, iframeNode, FALSE))
    IN  addAllToSet(matchesOfSelectors(<<>>, root, iframeNode, exclude, 1),
                    clickableElementsBasedOnProperty, 1)

RECURSIVE pushDocumentHost(_, _, _, _)
\* resultsForIframe.forEach: push the iframe element on the chain of every
\* result, creating the chain where there is none
pushDocumentHost(chains, resultsForIframe, i, childIframeElem) ==
    IF i > Len(resultsForIframe) THEN chains
    ELSE LET elem == resultsForIframe[i]
             old == IF elem \in DOMAIN chains THEN chains[elem] ELSE <<>>
         IN  pushDocumentHost((elem :> Append(old, childIframeElem)) @@ chains,
                              resultsForIframe, i + 1, childIframeElem)

RECURSIVE enhancedQuerySelectorAllHelper(_, _, _, _, _, _)
RECURSIVE resultsOfIframes(_, _, _, _, _, _)
RECURSIVE resultsOfShadowRoots(_, _, _, _, _, _)

\* the loop over the child iframe nodes of the frame context, from child i on;
\* acc holds the results so far, the documentHostChain properties and whether
\* an exception was raised
resultsOfIframes(iframeNode, i, tree, exclude, shouldIgnoreHidden, acc) ==
    IF i > Len(iframeNode.children) \/ acc.threw THEN acc
    ELSE LET childIframeElem == iframeNode.children[i]
             iframeContent == getIframeContent(childIframeElem)
         IN  IF shouldIgnoreHidden /\ calcIsHidden(childIframeElem, iframeNode, TRUE)
             THEN resultsOfIframes(iframeNode, i + 1, tree, exclude, shouldIgnoreHidden, acc)
             ELSE IF iframeContent.threw THEN [acc EXCEPT !.threw = TRUE]
             ELSE IF iframeContent.doc = NoDoc
             THEN resultsOfIframes(iframeNode, i + 1, tree, exclude, shouldIgnoreHidden, acc)
             ELSE TheOne({
                    TheOne({resultsOfIframes(iframeNode, i + 1, tree, exclude,
                                             shouldIgnoreHidden, next) :
                        next \in {[elems |-> acc.elems \o resultsForIframe.elems,
                                   chains |-> pushDocumentHost(resultsForIframe.chains,
                                                               resultsForIframe.elems, 1,
                                                               childIframeElem),
                                   threw |-> resultsForIframe.threw]}}) :
                    resultsForIframe \in {enhancedQuerySelectorAllHelper(
                        iframeContent.doc, tree.nodes[childIframeElem], Undefined,
                        tree, exclude,
                        [elems |-> <<>>, chains |-> acc.chains, threw |-> FALSE,
                         ignoreHidden |-> shouldIgnoreHidden])}})

\* the recursive calls into the shadow roots, from shadow root i on; every call
\* gets the frame context of the current call
resultsOfShadowRoots(shadowRootsOfChildren, i, iframeNode, tree, exclude, acc) ==
    IF i > Len(shadowRootsOfChildren) \/ acc.threw THEN acc
    ELSE TheOne({
            TheOne({resultsOfShadowRoots(shadowRootsOfChildren, i + 1, iframeNode, tree,
                                         exclude, next) :
                next \in {[elems |-> acc.elems \o resultsForShadowRoot.elems,
                           chains |-> resultsForShadowRoot.chains,
                           threw |-> resultsForShadowRoot.threw,
                           ignoreHidden |-> acc.ignoreHidden]}}) :
            resultsForShadowRoot \in {enhancedQuerySelectorAllHelper(
                shadowRootsOfChildren[i], iframeNode, Undefined, tree, exclude,
                [elems |-> <<>>, chains |-> acc.chains, threw |-> FALSE,
                 ignoreHidden |-> acc.ignoreHidden])}})

\* one call of the helper on a root (a document or a shadow root, named by
\* its owner) in a frame context.  start carries the documentHostChain
\* properties as they are when the call begins and shouldIgnoreHidden.
enhancedQuerySelectorAllHelper(root, iframeContextNode, cachedShadowRootHostChildren, tree, exclude, start) ==
    LET shouldIgnoreHidden == start.ignoreHidden
        allHosts == IF cachedShadowRootHostChildren.defined
                    THEN cachedShadowRootHostChildren.hosts
                    ELSE fetchElementsByCss("*", root)
        possibleShadowRootHosts ==
            IF shouldIgnoreHidden
            THEN SelectSeq(allHosts, LAMBDA e : ~calcIsHidden(e, iframeContextNode, TRUE))
            ELSE allHosts
        \* a shadow root is named by its host
        shadowRootsOfChildren ==
            IF cachedShadowRootHostChildren.defined THEN possibleShadowRootHosts
            ELSE SelectSeq(possibleShadowRootHosts, LAMBDA e : dom[e].shadowRoot)
        withCurrentScope(afterShadowRoots) ==
            IF afterShadowRoots.threw
            THEN [elems |-> <<>>, chains |-> afterShadowRoots.chains, threw |-> TRUE]
            ELSE [elems |-> afterShadowRoots.elems
                                \o currScopeResults(root, iframeContextNode, exclude),
                  chains |-> afterShadowRoots.chains, threw |-> FALSE]
    IN  TheOne({
            TheOne({withCurrentScope(afterShadowRoots) :
                afterShadowRoots \in {resultsOfShadowRoots(
                    hostList, 1, iframeContextNode, tree, exclude,
                    [elems |-> afterIframes.elems, chains |-> afterIframes.chains,
                     threw |-> afterIframes.threw, ignoreHidden |-> shouldIgnoreHidden])}}) :
            afterIframes \in {resultsOfIframes(
                iframeContextNode, 1, tree, exclude, shouldIgnoreHidden,
                [elems |-> <<>>, chains |-> start.chains, threw |-> FALSE])},
            hostList \in {shadowRootsOfChildren}})

\* enhancedQuerySelectorAll with the elemFilter of getInteractiveElements:
\* fills the list of shadow-root hosts and the tree when they are undefined,
\* then runs the helper on the top document
enhancedQuerySelectorAll(exclude, shouldIgnoreHidden) ==
    TheOne({
        TheOne({[elems |-> found.elems, chains |-> found.chains, threw |-> found.threw,
                 hosts |-> hosts, tree |-> fetched.tree, built |-> fetched.built] :
            found \in {enhancedQuerySelectorAllHelper(
                TopDoc, fetched.tree.nodes[NULL], hosts, fetched.tree, exclude,
                [elems |-> <<>>, chains |-> documentHostChain, threw |-> FALSE,
                 ignoreHidden |-> shouldIgnoreHidden])}}) :
        hosts \in {IF ~cachedShadowRootHostChildrenOfMainDoc.defined
                   THEN initializeCacheOfShadowRootHostChildrenOfMainDoc
                   ELSE cachedShadowRootHostChildrenOfMainDoc},
        fetched \in {fetchAndCacheIframeTree}})

-----------------------------------------------------------------------------
(* Element data *)

RECURSIVE sumOfHostOrigins(_, _)
\* the loop of getElementData over the documentHostChain: the sum of the
\* bounding-rectangle origins of the hosts from entry i on
sumOfHostOrigins(chain, i) ==
    IF i > Len(chain) THEN [x |-> 0, y |-> 0]
    ELSE LET rest == sumOfHostOrigins(chain, i + 1)
         IN  [x |-> dom[chain[i]].rect.x + rest.x, y |-> dom[chain[i]].rect.y + rest.y]

\* the descriptor getElementData builds when the element's documentHostChain
\* is chain (the empty chain when the element has none)
elementDataOf(element, chain) ==
    LET boundingRect == dom[element].rect
        hostSum == sumOfHostOrigins(chain, 1)
        elemX == boundingRect.x + hostSum.x
        elemY == boundingRect.y + hostSum.y
    IN  [centerCoords |-> <<elemX + boundingRect.width \div 2, elemY + boundingRect.height \div 2>>,
         boundingBox |-> [tLx |-> elemX, tLy |-> elemY,
                          bRx |-> elemX + boundingRect.width, bRy |-> elemY + boundingRect.height],
         width |-> boundingRect.width, height |-> boundingRect.height,
         tagName |-> dom[element].tag, element |-> element]

\* a variant that leaves the documentHostChain property on the element
getElementDataKeepingChain(element, chains) ==
    [data |-> elementDataOf(element, IF element \in DOMAIN chains THEN chains[element] ELSE <<>>),
     chains |-> chains]

\* getElementData: the descriptor, and the documentHostChain properties it
\* leaves (the element's own is deleted)
getElementData(element, chains) ==
    [data |-> elementDataOf(element, IF element \in DOMAIN chains THEN chains[element] ELSE <<>>),
     chains |-> [e \in DOMAIN chains \ {element} |-> chains[e]]]

RECURSIVE mapGetElementDataFromOne(_, _, _, _)
\* a variant that numbers the descriptors from 1
mapGetElementDataFromOne(elements, i, chains, dataSoFar) ==
    IF i > Len(elements) THEN [data |-> dataSoFar, chains |-> chains]
    ELSE TheOne({mapGetElementDataFromOne(elements, i + 1, one.chains,
                                          Append(dataSoFar, one.data @@ [interactivesIndex |-> i])) :
            one \in {getElementData(elements[i], chains)}})

RECURSIVE mapGetElementData(_, _, _, _)
\* uniqueInteractiveElements.map: getElementData on every element in turn
mapGetElementData(elements, i, chains, dataSoFar) ==
    IF i > Len(elements) THEN [data |-> dataSoFar, chains |-> chains]
    ELSE TheOne({mapGetElementData(elements, i + 1, one.chains,
                                   Append(dataSoFar, one.data @@ [interactivesIndex |-> i - 1])) :
            one \in {getElementData(elements[i], chains)}})

\* getInteractiveElements: the discovery pass and the descriptors of its elements
getInteractiveElements(excludeElemsOutsideViewport) ==
    TheOne({
        TheOne({[elements |-> pass.elems, data |-> mapped.data, chains |-> mapped.chains,
                 threw |-> pass.threw, hosts |-> pass.hosts, tree |-> pass.tree,
                 built |-> pass.built] :
            mapped \in {mapGetElementData(pass.elems, 1, pass.chains, <<>>)}}) :
        pass \in {enhancedQuerySelectorAll(excludeElemsOutsideViewport, TRUE)}})

-----------------------------------------------------------------------------
(* Pages of the visibility checks *)

\* an ordinary visible block element of the top document
PlainElem ==
    [tag |-> "div", type |-> "", hidden |-> FALSE, display |-> "block",
     visibility |-> "visible", cssWidth |-> "10px", cssHeight |-> "10px",
     opacity |-> "1", rect |-> Rect(0, 0, 4, 4), shadowRoot |-> FALSE,
     parent |-> NULL, root |-> TopDoc, accessible |-> FALSE,
     matches |-> {}, onclick |-> FALSE, disabled |-> FALSE]

\* the number of children the tested element may have
MaxChildren == 1

\* ids of the visibility pages: an iframe of the top document, the tested
\* element, its children
FrameId == 1
TargetId == 2
ChildIds == (TargetId + 1) .. (TargetId + MaxChildren)

TagKinds ==
    {[tag |-> "div", type |-> ""], [tag |-> "select", type |-> ""],
     [tag |-> "input", type |-> "checkbox"], [tag |-> "input", type |-> "text"]}

\* the element kinds of the pages with many styles
StyledKinds == {k \in TagKinds : k.type # "checkbox" /\ k.tag # "select"}

\* computed width, computed height, bounding-box width and height
Geometries ==
    {<<"10px", "10px", 4, 4>>, <<"0px", "10px", 4, 4>>, <<"10px", "1px", 4, 4>>,
     <<"10px", "10px", 0, 4>>, <<"10px", "10px", 4, 0>>}

TargetStyles ==
    {[PlainElem EXCEPT !.tag = k.tag, !.type = k.type, !.hidden = h, !.display = d,
                       !.visibility = v, !.cssWidth = g[1], !.cssHeight = g[2],
                       !.rect = Rect(0, 0, g[3], g[4]), !.opacity = o, !.shadowRoot = sr] :
        k \in StyledKinds, h \in BOOLEAN, d \in {"none", "block", "inline", "inline-block"},
        v \in {"visible", "hidden"}, g \in Geometries, o \in {"0", "1"}, sr \in BOOLEAN}

ChildStyles ==
    {PlainElem, [PlainElem EXCEPT !.display = "none"],
     [PlainElem EXCEPT !.rect = Rect(0, 0, 0, 0)]}

\* the frame contexts an element is tested in: the top document, or the
\* document of iframe FrameId at an offset inside or outside the viewport
FrameNodes ==
    {TopNode} \cup {[iframe |-> FrameId, offset |-> [x |-> ox, y |-> 0]] : ox \in {2, 100}}

\* a frame context and whether its iframe's document can be accessed now
FrameCases ==
    {<<TopNode, TRUE>>} \cup
    {<<n, acc>> \in FrameNodes \X BOOLEAN : n.iframe # NULL /\ (acc \/ n.offset.x = 2)}

\* the frame contexts of the pages with many styles: the top document, and an
\* iframe that lies outside the viewport
StyleFrameCases == {c \in FrameCases : c[1].iframe = NULL \/ c[1].offset.x > 2}

\* the frame contexts of the pages with every layout: inside the viewport
LayoutFrameCases == {c \in FrameCases : c[1].offset.x <= 2}

\* the page around a tested element of style t with children of styles cs,
\* tested in frame context node
VisibilityPage(t, cs, node, frameAccessible) ==
    LET root == IF node.iframe = NULL THEN TopDoc ELSE FrameId
    IN  [e \in 1 .. (TargetId + Len(cs)) |->
            IF e = FrameId
            THEN [PlainElem EXCEPT !.tag = "iframe", !.accessible = frameAccessible,
                                   !.rect = Rect(2, 0, 4, 4)]
            ELSE IF e = TargetId THEN [t EXCEPT !.root = root]
            ELSE [cs[e - TargetId] EXCEPT !.root = root, !.parent = TargetId]]

ChildLists == UNION {[1 .. n -> ChildStyles] : n \in 0 .. MaxChildren}

\* every sampled point of every search context shows the same element
UniformLayout(page, front) ==
    [p \in {<<sc, pt[1], pt[2]>> : sc \in {TopDoc, FrameId},
                                   pt \in {<<x, y>> : x \in 0 .. 4, y \in 0 .. 4}} |-> front]

\* any foremost element at each sampled point of a bounding box, in one search context
PointLayouts(r, sc, fronts) ==
    LET pts == {<<sc, queryPointsOf(r)[i][1], queryPointsOf(r)[i][2]>> : i \in 1 .. 5}
    IN  [pts -> fronts]

CachesUntouched ==
    /\ cachedIframeTree = Undefined
    /\ cachedShadowRootHostChildrenOfMainDoc = Undefined
    /\ treeBuilds = 0
    /\ documentHostChain = <<>>

\* many styles, uniform layouts
InitByStyle ==
    \E t \in TargetStyles, cs \in ChildLists, fc \in StyleFrameCases :
        /\ dom = VisibilityPage(t, cs, fc[1], fc[2])
        /\ \E front \in {NULL} \cup DOMAIN dom : layout = UniformLayout(dom, front)
        /\ call = [op |-> "page", iframeNode |-> fc[1]]

\* few styles, every layout of the sampled points
InitByLayout ==
    \E k \in TagKinds, w \in {0, 2, 4}, h \in {2, 4}, cs \in {<<>>, <<PlainElem>>},
       fc \in LayoutFrameCases :
        LET t == [PlainElem EXCEPT !.tag = k.tag, !.type = k.type, !.rect = Rect(0, 0, w, h)]
        IN  /\ dom = VisibilityPage(t, cs, fc[1], fc[2])
            /\ layout \in PointLayouts(t.rect, searchContextOf(fc[1]), {NULL} \cup DOMAIN dom)
            /\ call = [op |-> "page", iframeNode |-> fc[1]]

InitVisibility ==
    /\ OtherPartsAtRest
    /\ viewport = [width |-> 50, height |-> 50]
    /\ CachesUntouched
    /\ (InitByStyle \/ InitByLayout)

\* the frame context the page was set up for
pageNode == call.iframeNode

CallCalcIsHidden ==
    \E element \in {TargetId}, isDocHostElem \in BOOLEAN :
        /\ call' = [op |-> "calcIsHidden", element |-> element, iframeNode |-> pageNode,
                    isDocHostElem |-> isDocHostElem,
                    ret |-> calcIsHidden(element, pageNode, isDocHostElem)]
        /\ UNCHANGED <<otherParts, dom, layout, viewport, cachedIframeTree,
                       cachedShadowRootHostChildrenOfMainDoc, treeBuilds, documentHostChain>>

CallIsBuriedInBackground ==
    /\ call' = [op |-> "isBuriedInBackground", element |-> TargetId, iframeNode |-> pageNode,
                ret |-> isBuriedInBackground(TargetId, pageNode)]
    /\ UNCHANGED <<otherParts, dom, layout, viewport, cachedIframeTree,
                   cachedShadowRootHostChildrenOfMainDoc, treeBuilds, documentHostChain>>

NextVisibility == CallCalcIsHidden \/ CallIsBuriedInBackground

SpecVisibility == InitVisibility /\ [][NextVisibility]_vars

-----------------------------------------------------------------------------
(* The page of the discovery checks, built and changed by its scripts *)

\* the number of elements a page may hold
MaxElems == 3

\* element id stands at a place of its own: no two bounding boxes overlap
rectOfId(id) == Rect(6 * id, 2 * id, 4, 4)

\* what a script may add: a link with an onclick handler (matched by two
\* selectors and by the onclick property), a link that is not displayed, an
\* iframe whose document can or cannot be accessed, a shadow-root host
NewElements ==
    {[PlainElem EXCEPT !.tag = "a", !.matches = {"a", "[onclick]"}, !.onclick = TRUE],
     [PlainElem EXCEPT !.tag = "a", !.matches = {"a"}, !.display = "none"],
     [PlainElem EXCEPT !.tag = "iframe", !.accessible = TRUE],
     [PlainElem EXCEPT !.tag = "iframe", !.accessible = FALSE],
     [PlainElem EXCEPT !.shadowRoot = TRUE]}

\* the roots of the page: the top document, the document of every iframe,
\* the shadow root of every host
Roots == {TopDoc} \cup {e \in Elems : isIframe(e) \/ dom[e].shadowRoot}

RECURSIVE frameDocumentIn(_, _)
\* the document whose coordinate space the element is laid out in: shadow
\* roots share the space of their host's document
frameDocumentIn(d, e) ==
    IF d[e].root = TopDoc THEN TopDoc
    ELSE IF d[d[e].root].tag = "iframe" THEN d[e].root
    ELSE frameDocumentIn(d, d[e].root)

\* the layout of page d: every element is foremost at its own five sample points
layoutOfPage(d) ==
    LET at(e) == {<<frameDocumentIn(d, e), queryPointsOf(d[e].rect)[i][1],
                    queryPointsOf(d[e].rect)[i][2]>> : i \in 1 .. 5}
    IN  [p \in UNION {at(e) : e \in DOMAIN d} |-> CHOOSE e \in DOMAIN d : p \in at(e)]

Init ==
    /\ OtherPartsAtRest
    /\ dom = <<>>
    /\ layout = <<>>
    /\ viewport = [width |-> 50, height |-> 50]
    /\ CachesUntouched
    /\ call = [op |-> "init"]

\* a script of the page appends an element to one of the roots
AddElement ==
    \E new \in NewElements, root \in Roots :
        /\ Len(dom) < MaxElems
        /\ dom' = Append(dom, [new EXCEPT !.root = root, !.rect = rectOfId(Len(dom) + 1)])
        /\ layout' = layoutOfPage(dom')
        /\ call' = [op |-> "addElement", element |-> Len(dom) + 1]
        /\ UNCHANGED <<otherParts, viewport, cachedIframeTree, cachedShadowRootHostChildrenOfMainDoc,
                       treeBuilds, documentHostChain>>

GetInteractiveElements ==
    \E excludeElemsOutsideViewport \in BOOLEAN :
        \E r \in {getInteractiveElements(excludeElemsOutsideViewport)} :
            /\ cachedIframeTree' = r.tree
            /\ cachedShadowRootHostChildrenOfMainDoc' = r.hosts
            /\ treeBuilds' = treeBuilds + r.built
            /\ documentHostChain' = r.chains
            /\ call' = [op |-> "getInteractiveElements",
                        excludeElemsOutsideViewport |-> excludeElemsOutsideViewport,
                        elements |-> r.elements, data |-> r.data, threw |-> r.threw,
                        treeBefore |-> cachedIframeTree,
                        hostsBefore |-> cachedShadowRootHostChildrenOfMainDoc]
            /\ UNCHANGED <<otherParts, dom, layout, viewport>>

FetchAndCacheIframeTree ==
    /\ \E fetched \in {fetchAndCacheIframeTree} :
        /\ cachedIframeTree' = fetched.tree
        /\ treeBuilds' = treeBuilds + fetched.built
        /\ call' = [op |-> "fetchAndCacheIframeTree", ret |-> fetched.tree]
    /\ UNCHANGED <<otherParts, dom, layout, viewport, cachedShadowRootHostChildrenOfMainDoc,
                   documentHostChain>>

ResetElementAnalysis ==
    /\ cachedIframeTree' = resetElementAnalysis.tree
    /\ cachedShadowRootHostChildrenOfMainDoc' = resetElementAnalysis.hosts
    /\ treeBuilds' = 0
    /\ call' = [op |-> "resetElementAnalysis"]
    /\ UNCHANGED <<otherParts, dom, layout, viewport, documentHostChain>>

Next ==
    \/ AddElement
    \/ GetInteractiveElements
    \/ FetchAndCacheIframeTree
    \/ ResetElementAnalysis

Spec == Init /\ [][Next]_vars

-----------------------------------------------------------------------------
(* Pages of nested containers, for the filter and the container test *)

\* the number of containers nested in one another
MaxNesting == 2

\* a container: an iframe whose document can be read, or a shadow-root host;
\* displayed, not displayed, or of zero size
ContainerKinds ==
    {[k EXCEPT !.display = s.display, !.cssWidth = s.cssWidth, !.cssHeight = s.cssHeight,
               !.rect = s.rect] :
        k \in {[PlainElem EXCEPT !.tag = "iframe", !.accessible = TRUE],
               [PlainElem EXCEPT !.shadowRoot = TRUE]},
        s \in {[display |-> "block", cssWidth |-> "10px", cssHeight |-> "10px", rect |-> Rect(0, 0, 4, 4)],
               [display |-> "none", cssWidth |-> "10px", cssHeight |-> "10px", rect |-> Rect(0, 0, 4, 4)],
               [display |-> "block", cssWidth |-> "0px", cssHeight |-> "0px", rect |-> Rect(0, 0, 0, 0)]}}

\* a link in the innermost container: plain, disabled, not displayed, or
\* laid out to the right of the viewport
LinkKinds ==
    {[l EXCEPT !.tag = "a", !.matches = {"a"}] :
        l \in {PlainElem,
               [PlainElem EXCEPT !.disabled = TRUE],
               [PlainElem EXCEPT !.display = "none"],
               [PlainElem EXCEPT !.rect = Rect(60, 0, 4, 4)]}}

ContainerChains == UNION {[1 .. n -> ContainerKinds] : n \in 0 .. MaxNesting}

\* the page: container i stands in the root of container i - 1, the link in
\* the root of the innermost container; every element keeps its size and
\* stands at a place of its own
ContainerPage(chain, link) ==
    LET placed(e, id) ==
            [e EXCEPT !.root = id - 1,
                      !.rect = Rect(rectOfId(id).x + e.rect.x, rectOfId(id).y,
                                    e.rect.width, e.rect.height)]
    IN  [id \in 1 .. Len(chain) + 1 |->
            IF id <= Len(chain) THEN placed(chain[id], id) ELSE placed(link, id)]

InitContainers ==
    /\ OtherPartsAtRest
    /\ \E chain \in ContainerChains, link \in LinkKinds : dom = ContainerPage(chain, link)
    /\ layout = layoutOfPage(dom)
    /\ viewport = [width |-> 50, height |-> 50]
    /\ CachesUntouched
    /\ call = [op |-> "init"]

NextContainers ==
    \/ GetInteractiveElements
    \/ ResetElementAnalysis

SpecContainers == InitContainers /\ [][NextContainers]_vars

-----------------------------------------------------------------------------
(* Structural paths *)

\* A path is the sequence of the '/'-separated segments of the path string.
\* A node segment is a tag with the position among the like-tagged siblings
\* (0: the library writes no position); the two markers are segments of
\* their own.
Segment(kind, tag, nth) == [kind |-> kind, tag |-> tag, nth |-> nth]

ShadowRootMarker == Segment("shadow-root()", "", 0)
CorruptedNodeMarker == Segment("corrupted-node-in-iframe-tree()", "", 0)

\* the outcome of a call that a TypeError leaves
Thrown == <<Segment("TypeError", "", 0)>>

\* string concatenation; an exception in either operand leaves the whole expression
concat(a, b) == IF a = Thrown \/ b = Thrown THEN Thrown ELSE a \o b

\* the siblings of the element that have its tag, the element included
likeTaggedSiblings(element) ==
    {s \in Elems : /\ dom[s].root = dom[element].root
                   /\ dom[s].parent = dom[element].parent
                   /\ dom[s].tag = dom[element].tag}

\* the segment getXPath writes for one node: the tag, and the 1-based position
\* among the like-tagged siblings when there is such a sibling before or after
segmentOf(element) ==
    LET nbOfPreviousSiblings == Cardinality({s \in likeTaggedSiblings(element) : s < element})
        hasNextSiblings == \E s \in likeTaggedSiblings(element) : s > element
    IN  Segment("node", dom[element].tag,
                IF nbOfPreviousSiblings > 0 \/ hasNextSiblings
                THEN nbOfPreviousSiblings + 1 ELSE 0)

RECURSIVE pathInTree(_)
\* the segments from the topmost element ancestor down to the element
pathInTree(element) ==
    IF element = NULL THEN <<>>
    ELSE pathInTree(dom[element].parent) \o <<segmentOf(element)>>

\* getXPath(element, {ignoreId: true}): the walk up the parent nodes ends at
\* the shadow root or at the document; in a document the topmost elements of
\* the model stand in html/body
getXPath(element) ==
    IF isShadowRoot(dom[element].root) THEN pathInTree(element)
    ELSE <<Segment("node", "html", 0), Segment("node", "body", 0)>> \o pathInTree(element)

RECURSIVE getIframePathWithRoot(_, _)
\* a variant that puts the node of the top document at the head of the chain
getIframePathWithRoot(tree, frame) ==
    IF frame = NULL THEN <<tree.nodes[NULL]>>
    ELSE LET parentFrame == CHOOSE c \in DOMAIN tree.nodes : frame \in Range(tree.nodes[c].children)
         IN  Append(getIframePathWithRoot(tree, parentFrame), tree.nodes[frame])

RECURSIVE getIframePath(_, _)
\* the chain of frame contexts from the outermost embedding iframe down to
\* frame, the node of the top document left out
getIframePath(tree, frame) ==
    IF frame = NULL THEN <<>>
    ELSE LET parentFrame == CHOOSE c \in DOMAIN tree.nodes : frame \in Range(tree.nodes[c].children)
         IN  Append(getIframePath(tree, parentFrame), tree.nodes[frame])

\* IframeTree.getIframePathForElement: the chain of the frame context the
\* element belongs to, or null when the tree has no node for it
getIframePathForElement(tree, element) ==
    LET frame == frameDocumentIn(dom, element)
    IN  IF frame \in DOMAIN tree.nodes
        THEN [found |-> TRUE, path |-> getIframePath(tree, frame)]
        ELSE [found |-> FALSE, path |-> <<>>]

RECURSIVE getFullXpath(_)
RECURSIVE getFullXpathHelper(_)
RECURSIVE prependIframePaths(_, _, _)

\* a variant of the loop body without the test for a missing iframe element
prefixOfAnyEntry(nestedIframeNode) == getFullXpathHelper(nestedIframeNode.iframe)

\* the body of the loop of getFullXpath: what one entry of the chain puts
\* before the path
prefixOfEntry(nestedIframeNode) ==
    IF nestedIframeNode.iframe # NULL
    THEN getFullXpathHelper(nestedIframeNode.iframe)
    ELSE <<CorruptedNodeMarker>>

\* the loop of getFullXpath from entry nestedIframeIdx down to the first
prependIframePaths(nestedIframesPathToElem, nestedIframeIdx, overallXpath) ==
    IF nestedIframeIdx < 1 THEN overallXpath
    ELSE prependIframePaths(nestedIframesPathToElem, nestedIframeIdx - 1,
                            concat(prefixOfEntry(nestedIframesPathToElem[nestedIframeIdx]),
                                   overallXpath))

getFullXpath(element) ==
    LET nestedIframesPathToElem == getIframePathForElement(fetchAndCacheIframeTree.tree, element)
    IN  IF nestedIframesPathToElem.found
        THEN prependIframePaths(nestedIframesPathToElem.path, Len(nestedIframesPathToElem.path),
                                getFullXpathHelper(element))
        ELSE getFullXpathHelper(element)

\* element.getRootNode() on null is a TypeError
getFullXpathHelper(element) ==
    IF element = NULL THEN Thrown
    ELSE IF isShadowRoot(dom[element].root)
         THEN concat(concat(getFullXpath(dom[element].root), <<ShadowRootMarker>>),
                     getXPath(element))
         ELSE getXPath(element)

-----------------------------------------------------------------------------
(* Pages of the path checks *)

\* the number of elements nested in one another
MaxPathDepth == 3

\* what stands on the way down to an element: a plain element, an iframe
\* whose document can be read, a shadow-root host
PathKinds ==
    {PlainElem, [PlainElem EXCEPT !.tag = "iframe", !.accessible = TRUE],
     [PlainElem EXCEPT !.shadowRoot = TRUE]}

PathChains == UNION {[1 .. n -> PathKinds] : n \in 1 .. MaxPathDepth}

\* beside the innermost element: nothing, a later sibling of its tag, or a
\* later sibling of another tag
SiblingCases == {"none", "like-tagged", "other"}

\* element id + 1 stands inside element id: a child of a plain element, a
\* topmost element of the document of an iframe or of the shadow root of a host
PathPage(chain, sibling) ==
    LET isBoundary(id) == chain[id].tag = "iframe" \/ chain[id].shadowRoot
        RECURSIVE rootOf(_)
        rootOf(id) == IF id = 1 THEN TopDoc
                      ELSE IF isBoundary(id - 1) THEN id - 1 ELSE rootOf(id - 1)
        parentOf(id) == IF id = 1 \/ isBoundary(id - 1) THEN NULL ELSE id - 1
        n == Len(chain)
        placed(e, id) == [e EXCEPT !.root = rootOf(id), !.parent = parentOf(id)]
    IN  [id \in 1 .. (IF sibling = "none" THEN n ELSE n + 1) |->
            IF id <= n THEN placed(chain[id], id)
            ELSE placed([PlainElem EXCEPT !.tag = IF sibling = "other" THEN "span"
                                                  ELSE chain[n].tag], n)]

\* the tree with the iframe element missing from the nodes of the frames in lost
corruptedTree(tree, lost) ==
    [tree EXCEPT !.nodes = [c \in DOMAIN tree.nodes |->
                               IF c \in lost THEN [tree.nodes[c] EXCEPT !.iframe = NULL]
                               ELSE tree.nodes[c]]]

\* the cache is empty, or holds the tree of the page, some of its nodes corrupted
InitXpath ==
    /\ OtherPartsAtRest
    /\ \E chain \in PathChains, sibling \in SiblingCases : dom = PathPage(chain, sibling)
    /\ layout = <<>>
    /\ viewport = [width |-> 50, height |-> 50]
    /\ \/ cachedIframeTree = Undefined
       \/ \E lost \in SUBSET (DOMAIN IframeTree.nodes \ {NULL}) :
            cachedIframeTree = corruptedTree(IframeTree, lost)
    /\ cachedShadowRootHostChildrenOfMainDoc = Undefined
    /\ treeBuilds = 0
    /\ documentHostChain = <<>>
    /\ call = [op |-> "page"]

GetFullXpath ==
    \E element \in Elems :
        \E xpath \in {getFullXpath(element)}, fetched \in {fetchAndCacheIframeTree} :
            /\ cachedIframeTree' = fetched.tree
            /\ treeBuilds' = treeBuilds + fetched.built
            /\ call' = [op |-> "getFullXpath", element |-> element,
                        threw |-> xpath = Thrown,
                        ret |-> IF xpath = Thrown THEN <<>> ELSE xpath]
            /\ UNCHANGED <<otherParts, dom, layout, viewport, cachedShadowRootHostChildrenOfMainDoc,
                           documentHostChain>>

NextXpath == GetFullXpath

SpecXpath == InitXpath /\ [][NextXpath]_vars

-----------------------------------------------------------------------------
(* Serializable descriptors *)

\* the object without the property (the object itself when it has none such)
deleteProperty(object, name) ==
    [f \in DOMAIN object \ {name} |-> object[f]]

\* a variant that deletes the property of the argument itself
makeElementDataSerializableInPlace(elementData) ==
    LET serializableElementData == IF "element" \in DOMAIN elementData
                                   THEN deleteProperty(elementData, "element")
                                   ELSE elementData
    IN  [ret |-> serializableElementData, elementData |-> serializableElementData]

\* makeElementDataSerializable: the object it returns, and the argument
\* object as the call leaves it; the delete acts on the shallow copy
makeElementDataSerializable(elementData) ==
    LET copied == elementData
        serializableElementData == IF "element" \in DOMAIN copied
                                   THEN deleteProperty(copied, "element")
                                   ELSE copied
    IN  [ret |-> serializableElementData, elementData |-> elementData]

\* the descriptors handed to makeElementDataSerializable: the descriptor of a
\* link or a div of any of these places and sizes, with an index; and the
\* same without the element handle
DescriptorPages ==
    {<<[PlainElem EXCEPT !.tag = tag, !.rect = Rect(x, y, w, h)]>> :
        tag \in {"a", "div"}, x \in {0, 6}, y \in {0, 2}, w \in {0, 2, 4}, h \in {2, 4}}

\* the indices the descriptors carry
DescriptorIndices == {0, 1}

InitSerializable ==
    /\ OtherPartsAtRest
    /\ dom \in DescriptorPages
    /\ layout = <<>>
    /\ viewport = [width |-> 50, height |-> 50]
    /\ CachesUntouched
    /\ \E index \in DescriptorIndices, withHandle \in BOOLEAN :
        \E data \in {elementDataOf(1, <<>>) @@ [interactivesIndex |-> index,
                                                 xpath |-> getFullXpath(1)]} :
            call = [op |-> "descriptor",
                    elementData |-> IF withHandle THEN data ELSE deleteProperty(data, "element")]

MakeElementDataSerializable ==
    /\ call.op = "descriptor"
    /\ \E made \in {makeElementDataSerializable(call.elementData)} :
        call' = [op |-> "makeElementDataSerializable", argument |-> call.elementData,
                 elementData |-> made.elementData, ret |-> made.ret]
    /\ UNCHANGED <<otherParts, dom, layout, viewport, cachedIframeTree,
                   cachedShadowRootHostChildrenOfMainDoc, treeBuilds, documentHostChain>>

NextSerializable == MakeElementDataSerializable

SpecSerializable == InitSerializable /\ [][NextSerializable]_vars

-----------------------------------------------------------------------------
(* Foreground judge *)

Max(a, b) == IF a >= b THEN a ELSE b
Min(a, b) == IF a <= b THEN a ELSE b

\* the points sampled in the intersection of the two bounding boxes: none when
\* the intersection is empty, else its four corners inset by one and then the
\* centre of each descriptor that lies in the intersection, borders included
findQueryPointsInOverlap(elem1Data, elem2Data) ==
    LET overlapLeftX == Max(elem1Data.boundingBox.tLx, elem2Data.boundingBox.tLx)
        overlapRightX == Min(elem1Data.boundingBox.bRx, elem2Data.boundingBox.bRx)
        overlapTopY == Max(elem1Data.boundingBox.tLy, elem2Data.boundingBox.tLy)
        overlapBottomY == Min(elem1Data.boundingBox.bRy, elem2Data.boundingBox.bRy)
        inOverlap(c) == /\ c[1] >= overlapLeftX /\ c[1] <= overlapRightX
                        /\ c[2] >= overlapTopY /\ c[2] <= overlapBottomY
    IN  IF overlapLeftX >= overlapRightX \/ overlapTopY >= overlapBottomY THEN <<>>
        ELSE << <<overlapLeftX + 1, overlapTopY + 1>>, <<overlapRightX - 1, overlapTopY + 1>>,
                <<overlapLeftX + 1, overlapBottomY - 1>>,
                <<overlapRightX - 1, overlapBottomY - 1>> >>
             \o (IF inOverlap(elem1Data.centerCoords) THEN <<elem1Data.centerCoords>> ELSE <<>>)
             \o (IF inOverlap(elem2Data.centerCoords) THEN <<elem2Data.centerCoords>> ELSE <<>>)

\* the body of the loop over the query points: what one point adds to
\* numPointsWhereElem1IsForeground and to numPointsWhereElem2IsForeground
foregroundIncrementsAt(elem1Data, elem2Data, queryPoint) ==
    LET foregroundElemAtQueryPoint == actualElementFromPoint(queryPoint[1], queryPoint[2], TopDoc)
        inElem1 == contains(elem1Data.element, foregroundElemAtQueryPoint)
        inElem2 == contains(elem2Data.element, foregroundElemAtQueryPoint)
        forElem1 == [elem1 |-> 1, elem2 |-> 0]
        forElem2 == [elem1 |-> 0, elem2 |-> 1]
    IN  IF inElem1 /\ ~inElem2 THEN forElem1
        ELSE IF inElem2 /\ ~inElem1 THEN forElem2
        ELSE IF inElem1 /\ inElem2
        THEN IF elem1Data.element = foregroundElemAtQueryPoint THEN forElem1
             ELSE IF elem2Data.element = foregroundElemAtQueryPoint THEN forElem2
             ELSE IF contains(elem1Data.element, elem2Data.element) THEN forElem2
             ELSE forElem1
        ELSE [elem1 |-> 0, elem2 |-> 0]

RECURSIVE numPointsWhereForeground(_, _, _, _)
\* the two counts after the loop has gone through the query points from i on
numPointsWhereForeground(elem1Data, elem2Data, queryPoints, i) ==
    IF i > Len(queryPoints) THEN [elem1 |-> 0, elem2 |-> 0]
    ELSE LET here == foregroundIncrementsAt(elem1Data, elem2Data, queryPoints[i])
             rest == numPointsWhereForeground(elem1Data, elem2Data, queryPoints, i + 1)
         IN  [elem1 |-> here.elem1 + rest.elem1, elem2 |-> here.elem2 + rest.elem2]

\* a variant that tells the winner and never whether it wins at every point
comparisonValBySignOnly(numPointsWhereElem1IsForeground, numPointsWhereElem2IsForeground) ==
    IF numPointsWhereElem1IsForeground > numPointsWhereElem2IsForeground THEN 1
    ELSE IF numPointsWhereElem1IsForeground < numPointsWhereElem2IsForeground THEN -1
    ELSE 0

\* the value the judge derives from the two counts
comparisonVal(numPointsWhereElem1IsForeground, numPointsWhereElem2IsForeground) ==
    IF numPointsWhereElem1IsForeground > numPointsWhereElem2IsForeground
    THEN (IF numPointsWhereElem2IsForeground = 0 THEN 2 ELSE 1)
    ELSE IF numPointsWhereElem1IsForeground < numPointsWhereElem2IsForeground
    THEN (IF numPointsWhereElem1IsForeground = 0 THEN -2 ELSE -1)
    ELSE 0

\* the judge with what it did on the way: the value it returns, the two
\* counts and the number of hit tests it made
judgeWithCounts(elem1Data, elem2Data) ==
    LET queryPoints == findQueryPointsInOverlap(elem1Data, elem2Data)
        counts == numPointsWhereForeground(elem1Data, elem2Data, queryPoints, 1)
    IN  IF Len(queryPoints) = 0
        THEN [ret |-> 0, numPointsWhereElem1IsForeground |-> 0,
              numPointsWhereElem2IsForeground |-> 0, hitTests |-> 0]
        ELSE [ret |-> comparisonVal(counts.elem1, counts.elem2),
              numPointsWhereElem1IsForeground |-> counts.elem1,
              numPointsWhereElem2IsForeground |-> counts.elem2,
              hitTests |-> Len(queryPoints)]

judgeOverlappingElementsForForeground(elem1Data, elem2Data) ==
    judgeWithCounts(elem1Data, elem2Data).ret

-----------------------------------------------------------------------------
(* Pages of the foreground judge *)

\* the two judged elements; the page holds a third element beside them
JudgedIds == {1, 2}
JudgePageIds == {1, 2, 3}

\* the parent of every element: a forest in which either judged element may
\* hold the other and the third element may stand in either
JudgeForests ==
    {p \in [JudgePageIds -> {NULL} \cup JudgedIds] :
        /\ p[1] \in {NULL, 2} /\ p[2] \in {NULL, 1}
        /\ ~(p[1] = 2 /\ p[2] = 1)}

\* the box of the second element against Rect(0, 0, 4, 4) of the first: the
\* same box, a partial overlap, a box that holds the first, a box that
\* touches it, a box apart from it
SecondBoxes ==
    {Rect(0, 0, 4, 4), Rect(2, 2, 4, 4), Rect(0, 0, 8, 8), Rect(4, 0, 4, 4), Rect(10, 10, 4, 4)}

JudgePage(forest, secondBox) ==
    [e \in 1 .. 3 |->
        [PlainElem EXCEPT !.parent = forest[e],
                          !.rect = IF e = 2 THEN secondBox ELSE Rect(0, 0, 4, 4)]]

InitJudge ==
    /\ OtherPartsAtRest
    /\ viewport = [width |-> 50, height |-> 50]
    /\ CachesUntouched
    /\ \E forest \in JudgeForests, secondBox \in SecondBoxes :
          /\ dom = JudgePage(forest, secondBox)
          /\ LET pts == Range(findQueryPointsInOverlap(elementDataOf(1, <<>>),
                                                    elementDataOf(2, <<>>)))
             IN  layout \in [{<<TopDoc, pt[1], pt[2]>> : pt \in pts} -> {NULL} \cup JudgePageIds]
    /\ call = [op |-> "page"]

CallJudgeOverlappingElementsForForeground ==
    \E elem1 \in JudgedIds, elem2 \in JudgedIds :
        \E judged \in {judgeWithCounts(elementDataOf(elem1, <<>>), elementDataOf(elem2, <<>>))} :
            /\ call' = [op |-> "judgeOverlappingElementsForForeground",
                        elem1 |-> elem1, elem2 |-> elem2, ret |-> judged.ret,
                        numPointsWhereElem1IsForeground |-> judged.numPointsWhereElem1IsForeground,
                        numPointsWhereElem2IsForeground |-> judged.numPointsWhereElem2IsForeground,
                        hitTests |-> judged.hitTests]
            /\ UNCHANGED <<otherParts, dom, layout, viewport, cachedIframeTree,
                           cachedShadowRootHostChildrenOfMainDoc, treeBuilds, documentHostChain>>

NextJudge == CallJudgeOverlappingElementsForForeground

SpecJudge == InitJudge /\ [][NextJudge]_vars

-----------------------------------------------------------------------------
(* Element descriptions *)

\* A text is the sequence of its characters; a piece of a literal of the
\* code ("parent_node:", "Options:") stands as one character that is no
\* white space.
EmptyText == <<>>
\* undefined or null where a string is expected
NoText == <<"undefined">>

isWhitespace(c) == c \in {" ", "\n", "\r"}
isEol(c) == c \in {"\n", "\r"}

\* String.prototype.trim: from the first to the last character that is no white space
trim(text) ==
    LET inked == {i \in DOMAIN text : ~isWhitespace(text[i])}
    IN  IF inked = {} THEN <<>>
        ELSE SubSeq(text, CHOOSE i \in inked : \A j \in inked : i <= j,
                          CHOOSE i \in inked : \A j \in inked : i >= j)

\* replace(/\s{2,}/g, " "): a run of two or more white-space characters
\* becomes one space, a single white-space character stays as it is
collapseWhitespace(text) ==
    LET startsRun(i) == isWhitespace(text[i]) /\ i < Len(text) /\ isWhitespace(text[i + 1])
        insideRun(i) == isWhitespace(text[i]) /\ i > 1 /\ isWhitespace(text[i - 1])
        marked == [i \in DOMAIN text |->
                      [c |-> IF startsRun(i) THEN " " ELSE text[i], kept |-> ~insideRun(i)]]
        selected == SelectSeq(marked, LAMBDA m : m.kept)
    IN  [k \in DOMAIN selected |-> selected[k].c]

\* removeEolAndCollapseWhitespace: line breaks to spaces, then the runs
removeEolAndCollapseWhitespace(text) ==
    collapseWhitespace([i \in DOMAIN text |-> IF isEol(text[i]) THEN " " ELSE text[i]])

RECURSIVE splitAtWhitespace(_, _, _, _)
\* split(/\s+/): the segments between the runs of white space (a text that
\* begins or ends with white space has an empty first or last segment)
splitAtWhitespace(text, i, current, segments) ==
    IF i > Len(text) THEN Append(segments, current)
    ELSE IF ~isWhitespace(text[i])
         THEN splitAtWhitespace(text, i + 1, Append(current, text[i]), segments)
    ELSE IF i > 1 /\ isWhitespace(text[i - 1])
         THEN splitAtWhitespace(text, i + 1, current, segments)
    ELSE splitAtWhitespace(text, i + 1, <<>>, Append(segments, current))

RECURSIVE joinWithSpaces(_, _)
joinWithSpaces(segments, i) ==
    IF i > Len(segments) THEN <<>>
    ELSE IF i = Len(segments) THEN segments[i]
    ELSE segments[i] \o <<" ">> \o joinWithSpaces(segments, i + 1)

\* the number of segments getFirstLine keeps
MaxFirstLineSegments == 8

\* getFirstLine: the text up to the first line break, cut after eight
\* segments; on undefined the call of split is a TypeError
getFirstLine(text) ==
    IF text = NoText THEN [threw |-> TRUE, text |-> EmptyText]
    ELSE LET eols == {i \in DOMAIN text : isEol(text[i])}
             firstLine == IF eols = {} THEN text
                          ELSE SubSeq(text, 1, (CHOOSE i \in eols : \A j \in eols : i <= j) - 1)
             firstLineSegments == splitAtWhitespace(firstLine, 1, <<>>, <<>>)
         IN  [threw |-> FALSE,
              text |-> IF Len(firstLineSegments) <= MaxFirstLineSegments THEN firstLine
                       ELSE joinWithSpaces(SubSeq(firstLineSegments, 1, MaxFirstLineSegments), 1)
                            \o <<"...">>]

\* the longest own text a description takes as it is
MaxElementTextLength == 80

\* a variant without the test for a missing inner text of the parent
parentTextUnguarded(element) ==
    IF dom[element].hasParent THEN dom[element].parentInnerText ELSE EmptyText

\* the inner text of getRealParentElement(element), "" when there is no
\* parent or the inner text is undefined or null
parentTextOf(element) ==
    LET parentText == IF dom[element].hasParent THEN dom[element].parentInnerText ELSE EmptyText
    IN  IF parentText = NoText THEN EmptyText ELSE parentText

\* string | null: the value of a description
Description(text) == [threw |-> FALSE, isNull |-> FALSE, text |-> text]
NullDescription == [threw |-> FALSE, isNull |-> TRUE, text |-> EmptyText]
ThrownDescription == [threw |-> TRUE, isNull |-> FALSE, text |-> EmptyText]

typesForNoTextInputElements == {"submit", "reset", "checkbox", "radio", "button", "file"}

\* the rules for a generic element: own text, salient attributes after the
\* parent's first line, salient attributes of the first child
genericDescription(element, parentValue) ==
    LET s == dom[element]
        inputValue == IF s.tag \in {"input", "textarea"}
                         /\ s.type \notin typesForNoTextInputElements
                         /\ s.role \notin typesForNoTextInputElements
                      THEN <<"INPUT_VALUE=">> \o s.value \o <<" ">>
                      ELSE <<>>
        elementText == removeEolAndCollapseWhitespace(trim(s.textContent))
        innerText == trim(IF s.innerText = NoText THEN EmptyText ELSE s.innerText)
        elementDescWithAttributes == trim(parentValue \o s.relevantAttributes)
        childDescWithAttributes == trim(parentValue \o s.childRelevantAttributes)
    IN  IF trim(s.textContent) # <<>> /\ Len(elementText) <= MaxElementTextLength
        THEN Description(inputValue \o elementText)
        ELSE IF trim(s.textContent) # <<>> /\ innerText # <<>>
        THEN Description(inputValue \o removeEolAndCollapseWhitespace(innerText))
        ELSE IF elementDescWithAttributes # <<>>
        THEN Description(inputValue \o removeEolAndCollapseWhitespace(elementDescWithAttributes))
        ELSE IF s.hasChild /\ childDescWithAttributes # <<>>
        THEN Description(inputValue \o removeEolAndCollapseWhitespace(childDescWithAttributes))
        ELSE NullDescription

\* parentValue: the first line of the parent's text, as the head of a description
parentValueOf(element) ==
    LET firstLine == getFirstLine(parentTextOf(element))
        parentFirstLine == trim(removeEolAndCollapseWhitespace(firstLine.text))
    IN  [threw |-> firstLine.threw,
         text |-> IF parentFirstLine # <<>>
                  THEN <<"parent_node:", " ", "[<">> \o parentFirstLine \o <<">]", " ">>
                  ELSE <<>>]

getElementDescription(element) ==
    LET s == dom[element]
        firstLine == parentValueOf(element)
        parentValue == firstLine.text
        optionsText == IF s.optionsText # <<>> THEN s.optionsText
                       ELSE IF s.textContent # <<>> THEN s.textContent
                       ELSE s.innerText
    IN  IF firstLine.threw THEN ThrownDescription
        ELSE IF s.tag = "select" /\ s.selectedOptionText # NoText /\ s.selectedOptionText # <<>>
        THEN Description(parentValue \o <<"Selected", " ", "Options:", " ">>
                         \o removeEolAndCollapseWhitespace(trim(s.selectedOptionText))
                         \o <<" ", "-", " ", "Options:", " ">> \o optionsText)
        ELSE genericDescription(element, parentValue)

\* a variant of the placeholder that does not look at the iframe's content
placeholderWhateverElement(element) == "description_unavailable"

\* the description getElementData puts in place of a missing one
placeholderDescription(element) ==
    IF dom[element].tag = "iframe" /\ getIframeContent(element).doc = NoDoc
    THEN "cross_origin_iframe"
    ELSE "description_unavailable"

\* getElementData with the description and the tag head: the descriptor, the
\* documentHostChain properties it leaves, and whether an exception leaves it
getDescribedElementData(element, chains) ==
    LET description == getElementDescription(element)
        s == dom[element]
        plain == getElementData(element, chains)
    IN  [threw |-> description.threw,
         chains |-> IF description.threw THEN chains ELSE plain.chains,
         data |-> plain.data @@
                  [description |-> IF description.isNull \/ description.text = <<>>
                                   THEN <<placeholderDescription(element)>>
                                   ELSE description.text,
                   tagHead |-> <<s.tag>>
                               \o (IF s.role # "" THEN <<" ", "role=", s.role>> ELSE <<>>)
                               \o (IF s.type # "" THEN <<" ", "type=", s.type>> ELSE <<>>)]]

-----------------------------------------------------------------------------
(* Pages of the description checks *)

\* own texts: none, blank, a word, two lines, longer than a description takes
LongText == [i \in 1 .. MaxElementTextLength + 1 |-> "x"]
OwnTexts == {EmptyText, <<" ">>, <<"x">>, <<"x", "\n", " ", " ", "y">>, LongText}

\* a first line of more segments than getFirstLine keeps
ManySegments == [i \in 1 .. 2 * MaxFirstLineSegments + 1 |-> IF i % 2 = 1 THEN "x" ELSE " "]

\* the parent: none, or one whose inner text is undefined, empty, two lines, long
ParentCases ==
    {[hasParent |-> FALSE, parentInnerText |-> EmptyText]}
    \cup {[hasParent |-> TRUE, parentInnerText |-> t] :
            t \in {NoText, EmptyText, <<" ", "p", "\n", "q">>, ManySegments}}

\* the first child: none, one without salient attributes, one with
ChildCases ==
    {[hasChild |-> FALSE, childRelevantAttributes |-> EmptyText],
     [hasChild |-> TRUE, childRelevantAttributes |-> EmptyText],
     [hasChild |-> TRUE, childRelevantAttributes |-> <<"alt=", "c">>]}

\* tag, type, what a select shows, the value of an input, readable or not
\* for an iframe
DescribedKinds ==
    {[tag |-> "div", type |-> "", selectedOptionText |-> NoText, optionsText |-> EmptyText,
      value |-> EmptyText, accessible |-> FALSE],
     [tag |-> "input", type |-> "checkbox", selectedOptionText |-> NoText,
      optionsText |-> EmptyText, value |-> <<"v">>, accessible |-> FALSE]}
    \cup {[tag |-> "select", type |-> "", selectedOptionText |-> sel, optionsText |-> opts,
            value |-> EmptyText, accessible |-> FALSE] :
            sel \in {NoText, EmptyText, <<"o">>},
            opts \in {EmptyText, <<"o", " ", "|", " ", "p">>}}
    \cup {[tag |-> "input", type |-> "text", selectedOptionText |-> NoText,
            optionsText |-> EmptyText, value |-> v, accessible |-> FALSE] :
            v \in {EmptyText, <<"v">>}}
    \cup {[tag |-> "iframe", type |-> "", selectedOptionText |-> NoText,
            optionsText |-> EmptyText, value |-> EmptyText, accessible |-> acc] :
            acc \in BOOLEAN}

\* the element of the page, with what getElementDescription reads of it
DescribedElements ==
    {[PlainElem EXCEPT !.tag = k.tag, !.type = k.type, !.accessible = k.accessible] @@
     [role |-> "", value |-> k.value, selectedOptionText |-> k.selectedOptionText,
      optionsText |-> k.optionsText, textContent |-> text, innerText |-> inner,
      relevantAttributes |-> attrs, hasParent |-> p.hasParent,
      parentInnerText |-> p.parentInnerText, hasChild |-> c.hasChild,
      childRelevantAttributes |-> c.childRelevantAttributes] :
        k \in DescribedKinds, text \in OwnTexts, inner \in {NoText, EmptyText, <<"i">>},
        attrs \in {EmptyText, <<"title=", "t">>}, p \in ParentCases, c \in ChildCases}

InitDescription ==
    /\ OtherPartsAtRest
    /\ \E e \in DescribedElements : dom = <<e>>
    /\ layout = <<>>
    /\ viewport = [width |-> 50, height |-> 50]
    /\ CachesUntouched
    /\ call = [op |-> "page"]

GetElementData ==
    \E element \in Elems :
        \E r \in {getDescribedElementData(element, documentHostChain)} :
            /\ documentHostChain' = r.chains
            /\ call' = [op |-> "getElementData", element |-> element, threw |-> r.threw,
                        ret |-> r.data]
            /\ UNCHANGED <<otherParts, dom, layout, viewport, cachedIframeTree,
                           cachedShadowRootHostChildrenOfMainDoc, treeBuilds>>

NextDescription == GetElementData

SpecDescription == InitDescription /\ [][NextDescription]_vars

-----------------------------------------------------------------------------
(* The focused element *)

RECURSIVE getRealActiveElementOrContainer(_)
\* a variant that falls back to the shadow-root host or the iframe when the
\* scope inside it has no active element
getRealActiveElementOrContainer(root) ==
    LET currContextActiveElement == activeElement[root]
        inner(scope) ==
            IF getRealActiveElementOrContainer(scope) = NULL THEN currContextActiveElement
            ELSE getRealActiveElementOrContainer(scope)
    IN  IF currContextActiveElement = NULL THEN NULL
        ELSE IF dom[currContextActiveElement].shadowRoot THEN inner(currContextActiveElement)
        ELSE IF isIframe(currContextActiveElement)
        THEN IF getIframeContent(currContextActiveElement).doc # NoDoc
             THEN inner(getIframeContent(currContextActiveElement).doc)
             ELSE currContextActiveElement
        ELSE currContextActiveElement

RECURSIVE getRealActiveElementInContext(_)
\* the active element of the scope, followed through the shadow root or the
\* document of every active element that has one
getRealActiveElementInContext(root) ==
    LET currContextActiveElement == activeElement[root]
    IN  IF currContextActiveElement = NULL THEN NULL
        ELSE IF dom[currContextActiveElement].shadowRoot
        THEN getRealActiveElementInContext(currContextActiveElement)
        ELSE IF isIframe(currContextActiveElement)
        THEN IF getIframeContent(currContextActiveElement).doc # NoDoc
             THEN getRealActiveElementInContext(getIframeContent(currContextActiveElement).doc)
             ELSE NULL
        ELSE currContextActiveElement

\* ret: the element returned; warned: whether the warning about a hidden
\* active element was logged
findRealActiveElement ==
    LET activeElem == getRealActiveElementInContext(TopDoc)
    IN  IF activeElem # NULL /\ dom[activeElem].tag = "body"
        THEN [ret |-> NULL, warned |-> FALSE]
        ELSE [ret |-> activeElem,
              warned |-> activeElem # NULL /\ calcIsHidden(activeElem, TopNode, FALSE)]

-----------------------------------------------------------------------------
(* Pages of the focus checks *)

\* the deepest nesting of shadow roots and iframes around the focused element
MaxFocusNesting == 2

FocusContainerKinds ==
    {[PlainElem EXCEPT !.shadowRoot = TRUE],
     [PlainElem EXCEPT !.tag = "iframe", !.accessible = TRUE],
     [PlainElem EXCEPT !.tag = "iframe", !.accessible = FALSE]}

FocusChains == UNION {[1 .. n -> FocusContainerKinds] : n \in 0 .. MaxFocusNesting}

\* the page: level i is the top document (i = 0) or the root of container i;
\* each level holds three elements: the container of the next level (a plain
\* div at the innermost level), the body of the document (a span when the
\* level is a shadow root) and an input
FocusPage(chain) ==
    LET levelOf(id) == (id - 1) \div 3
        rootOf(id) == IF levelOf(id) = 0 THEN TopDoc ELSE 3 * (levelOf(id) - 1) + 1
        isDocument(level) == level = 0 \/ chain[level].tag = "iframe"
        bodyOf(level) == 3 * level + 2
        kindOf(id) ==
            CASE id % 3 = 1 ->
                    IF levelOf(id) < Len(chain) THEN chain[levelOf(id) + 1] ELSE PlainElem
              [] id % 3 = 2 ->
                    [PlainElem EXCEPT !.tag = IF isDocument(levelOf(id)) THEN "body" ELSE "span"]
              [] OTHER -> [PlainElem EXCEPT !.tag = "input", !.type = "text"]
        parentOf(id) ==
            IF id % 3 # 2 /\ isDocument(levelOf(id)) THEN bodyOf(levelOf(id)) ELSE NULL
    IN  [id \in 1 .. 3 * (Len(chain) + 1) |->
            [kindOf(id) EXCEPT !.root = rootOf(id), !.parent = parentOf(id),
                               !.rect = rectOfId(id)]]

\* the scopes of page d that have an activeElement property
FocusScopes(d) == {TopDoc} \cup {e \in DOMAIN d : d[e].tag = "iframe" \/ d[e].shadowRoot}

\* a loaded page: the body has the focus of its document, nothing has the
\* focus of a shadow root
focusAfterLoad(d) ==
    [root \in FocusScopes(d) |->
        IF \E e \in DOMAIN d : d[e].root = root /\ d[e].tag = "body"
        THEN CHOOSE e \in DOMAIN d : d[e].root = root /\ d[e].tag = "body"
        ELSE NULL]

InitFocus ==
    /\ \E chain \in FocusChains : dom = FocusPage(chain)
    /\ layout = layoutOfPage(dom)
    /\ viewport = [width |-> 50, height |-> 50]
    /\ CachesUntouched
    /\ activeElement = focusAfterLoad(dom)
    /\ sidePanel = SidePanelFields
    /\ PanelRuntimeAtRest
    /\ call = [op |-> "init"]

\* the focus of one scope moves to an element of the scope, or to nothing
MoveFocus ==
    \E root \in DOMAIN activeElement :
        \E e \in {NULL} \cup {e \in Elems : dom[e].root = root} :
            /\ activeElement' = [activeElement EXCEPT ![root] = e]
            /\ call' = [op |-> "focus"]
            /\ UNCHANGED <<sidePanel, panelRuntime, dom, layout, viewport, cachedIframeTree,
                           cachedShadowRootHostChildrenOfMainDoc, treeBuilds, documentHostChain>>

FindRealActiveElement ==
    /\ call' = [op |-> "findRealActiveElement", ret |-> findRealActiveElement.ret,
                warned |-> findRealActiveElement.warned]
    /\ UNCHANGED <<otherParts, dom, layout, viewport, cachedIframeTree,
                   cachedShadowRootHostChildrenOfMainDoc, treeBuilds, documentHostChain>>

NextFocus ==
    \/ MoveFocus
    \/ FindRealActiveElement

SpecFocus == InitFocus /\ [][NextFocus]_vars

-----------------------------------------------------------------------------
(* Formatting the choices of the prompt *)

\* the number of segments from which formatChoices abbreviates a description
MinSegmentsToAbbreviate == 30

\* `${id}`: the decimal digits of the number
idString(id) == ToString(id)

\* the pair formatChoices makes for one candidate id
choiceOf(elements, id) ==
    LET description == elements[id + 1][1]
        tagAndRoleType == elements[id + 1][2]
        tagName == elements[id + 1][3]
        descriptionSplit == splitAtWhitespace(description, 1, <<>>, <<>>)
        possiblyAbbrevDesc ==
            IF tagName # <<"select">> /\ Len(descriptionSplit) >= MinSegmentsToAbbreviate
            THEN joinWithSpaces(SubSeq(descriptionSplit, 1, MinSegmentsToAbbreviate - 1), 1)
                 \o <<"...">>
            ELSE description
        abbreviatedHtml ==
            <<"<">> \o tagAndRoleType \o <<" id=\"", idString(id), "\">">> \o possiblyAbbrevDesc
            \o <<"</">> \o tagName \o <<">">>
    IN  <<idString(id), abbreviatedHtml>>

\* a variant that leaves the ids out of range out instead of throwing
formatChoicesLenient(elements, candidateIds) ==
    LET inRange == SelectSeq(candidateIds, LAMBDA id : ~(id < 0 \/ id >= Len(elements)))
    IN  [threw |-> FALSE, ret |-> [k \in DOMAIN inRange |-> choiceOf(elements, inRange[k])]]

\* formatChoices; elements[id] of the code is elements[id + 1] here
formatChoices(elements, candidateIds) ==
    LET badCandidateIds == SelectSeq(candidateIds, LAMBDA id : id < 0 \/ id >= Len(elements))
    IN  IF Len(badCandidateIds) > 0 THEN [threw |-> TRUE, ret |-> <<>>]
        ELSE [threw |-> FALSE,
              ret |-> [k \in DOMAIN candidateIds |-> choiceOf(elements, candidateIds[k])]]

-----------------------------------------------------------------------------
(* Inputs of the choice checks *)

\* the longest list of elements and the longest list of candidate ids
MaxChoiceElements == 2
MaxCandidateIds == 3

\* a description of as many segments as formatChoices abbreviates
ManyWords == [i \in 1 .. 2 * MinSegmentsToAbbreviate - 1 |-> IF i % 2 = 1 THEN "w" ELSE " "]

StrTriples ==
    {<<d, <<t, " type=\"x\"">>, <<t>> >> :
        d \in {EmptyText, <<"o", "k">>, ManyWords}, t \in {"select", "input"}}

ChoiceElements == UNION {[1 .. n -> StrTriples] : n \in 0 .. MaxChoiceElements}

CandidateIdLists ==
    UNION {[1 .. n -> -1 .. MaxChoiceElements] : n \in 0 .. MaxCandidateIds}

InitChoices ==
    /\ OtherPartsAtRest
    /\ dom = <<>>
    /\ layout = <<>>
    /\ viewport = [width |-> 50, height |-> 50]
    /\ CachesUntouched
    /\ \E elements \in ChoiceElements, candidateIds \in CandidateIdLists :
          call = [op |-> "choices", elements |-> elements, candidateIds |-> candidateIds]

FormatChoices ==
    /\ call.op = "choices"
    /\ \E r \in {formatChoices(call.elements, call.candidateIds)} :
          call' = [op |-> "formatChoices", elements |-> call.elements,
                   candidateIds |-> call.candidateIds, threw |-> r.threw, ret |-> r.ret]
    /\ UNCHANGED <<otherParts, dom, layout, viewport, cachedIframeTree,
                   cachedShadowRootHostChildrenOfMainDoc, treeBuilds, documentHostChain>>

NextChoices == FormatChoices

SpecChoices == InitChoices /\ [][NextChoices]_vars

-----------------------------------------------------------------------------
(* Option names *)

\* strings are sequences of character codes here
CodeOfA == 65
LettersInAlphabet == 26
\* the number of names of one or two letters: 26 + 26 * 26
OptionNamesAvailable == 702

\* String.fromCharCode('A'.charCodeAt(0) + capitalLetterIndex)
indexToCapitalLetter(capitalLetterIndex) == <<CodeOfA + capitalLetterIndex>>

\* capitalLetter.charCodeAt(0) - 'A'.charCodeAt(0)
capitalLetterToIndex(capitalLetter) == capitalLetter[1] - CodeOfA

\* _generateOptionName, for an integer index
_generateOptionName(index) ==
    IF index < LettersInAlphabet
    THEN [threw |-> FALSE, name |-> indexToCapitalLetter(index)]
    ELSE IF index < OptionNamesAvailable
    THEN LET firstLetterIndex == (index \div LettersInAlphabet) - 1
             secondLetterIndex == index % LettersInAlphabet
         IN  [threw |-> FALSE,
              name |-> indexToCapitalLetter(firstLetterIndex)
                       \o indexToCapitalLetter(secondLetterIndex)]
    ELSE [threw |-> TRUE, name |-> <<>>]

\* optName.match(/^[A-Z]{1,2}$/)
matchesOneOrTwoCapitals(optName) ==
    /\ Len(optName) \in 1 .. 2
    /\ \A i \in DOMAIN optName : optName[i] \in CodeOfA .. (CodeOfA + LettersInAlphabet - 1)

\* a variant that reads a name of two letters as a number in base 26
getIndexFromOptionNameBase26(optName) ==
    IF ~matchesOneOrTwoCapitals(optName) THEN Undefined
    ELSE IF Len(optName) = 1
    THEN [defined |-> TRUE, value |-> capitalLetterToIndex(<<optName[1]>>)]
    ELSE [defined |-> TRUE,
          value |-> capitalLetterToIndex(<<optName[1]>>) * LettersInAlphabet
                    + capitalLetterToIndex(<<optName[2]>>)]

\* getIndexFromOptionName
getIndexFromOptionName(optName) ==
    IF ~matchesOneOrTwoCapitals(optName) THEN Undefined
    ELSE IF Len(optName) = 1
    THEN [defined |-> TRUE, value |-> capitalLetterToIndex(<<optName[1]>>)]
    ELSE [defined |-> TRUE,
          value |-> (capitalLetterToIndex(<<optName[1]>>) + 1) * LettersInAlphabet
                    + capitalLetterToIndex(<<optName[2]>>)]

OptionsIntro == "If none of these elements match your target element, please select "
OptionsNoneOfAbove == "None of the other options match the correct element"

\* the four pieces of the text that _formatOptions writes for choice number
\* index
optionLine(choices, index) ==
    <<_generateOptionName(index - 1).name, ". ", choices[index][2], "\n">>

\* choices.map(...).join(''): the pieces of all the choices, one after the other
optionLines(choices) ==
    [k \in 1 .. 4 * Len(choices) |-> optionLine(choices, ((k - 1) \div 4) + 1)[((k - 1) % 4) + 1]]

\* _formatOptions: the text as the sequence of its pieces, the names among them
_formatOptions(choices) ==
    LET noneOfAboveOptionName == _generateOptionName(Len(choices))
    IN  IF noneOfAboveOptionName.threw THEN [threw |-> TRUE, text |-> <<>>]
        ELSE [threw |-> FALSE,
              text |-> <<OptionsIntro, noneOfAboveOptionName.name, ". ", OptionsNoneOfAbove, ".\n">>
                       \o optionLines(choices)
                       \o <<noneOfAboveOptionName.name, ". ", OptionsNoneOfAbove, "\n\n">>]

-----------------------------------------------------------------------------
(* Inputs of the option name checks *)

\* the largest index and the largest number of choices
MaxOptionIndex == 704
\* the longest string given to getIndexFromOptionName
MaxOptionNameLength == 3

\* line feed, @, A, B, Z, [, a
OptionNameCodes == {10, 64, 65, 66, 90, 91, 97}

OptionNameStrings == UNION {[1 .. n -> OptionNameCodes] : n \in 0 .. MaxOptionNameLength}

choicesOfLength(n) == [i \in 1 .. n |-> <<ToString(i - 1), "<a>">>]

InitOptions ==
    /\ OtherPartsAtRest
    /\ dom = <<>>
    /\ layout = <<>>
    /\ viewport = [width |-> 50, height |-> 50]
    /\ CachesUntouched
    /\ \/ \E index \in 0 .. MaxOptionIndex : call = [op |-> "index", index |-> index]
       \/ \E optName \in OptionNameStrings : call = [op |-> "name", optName |-> optName]
       \/ \E n \in 0 .. MaxOptionIndex : call = [op |-> "choices", choices |-> choicesOfLength(n)]

GenerateOptionName ==
    /\ call.op = "index"
    /\ \E r \in {_generateOptionName(call.index)} :
          call' = [op |-> "_generateOptionName", index |-> call.index, threw |-> r.threw,
                   name |-> r.name]
    /\ UNCHANGED <<otherParts, dom, layout, viewport, cachedIframeTree,
                   cachedShadowRootHostChildrenOfMainDoc, treeBuilds, documentHostChain>>

\* the name is a string of the inputs or the name _generateOptionName
\* returned for index
GetIndexFromOptionName ==
    /\ \/ call.op = "name"
       \/ call.op = "_generateOptionName" /\ ~call.threw
    /\ \E optName \in {IF call.op = "name" THEN call.optName ELSE call.name} :
          call' = [op |-> "getIndexFromOptionName", optName |-> optName,
                   generatedFor |-> IF call.op = "name" THEN -1 ELSE call.index,
                   ret |-> getIndexFromOptionName(optName)]
    /\ UNCHANGED <<otherParts, dom, layout, viewport, cachedIframeTree,
                   cachedShadowRootHostChildrenOfMainDoc, treeBuilds, documentHostChain>>

FormatOptions ==
    /\ call.op = "choices"
    /\ \E r \in {_formatOptions(call.choices)} :
          call' = [op |-> "_formatOptions", choices |-> Len(call.choices), threw |-> r.threw,
                   text |-> r.text]
    /\ UNCHANGED <<otherParts, dom, layout, viewport, cachedIframeTree,
                   cachedShadowRootHostChildrenOfMainDoc, treeBuilds, documentHostChain>>

NextOptions ==
    \/ GenerateOptionName
    \/ GetIndexFromOptionName
    \/ FormatOptions

SpecOptions == InitOptions /\ [][NextOptions]_vars

-----------------------------------------------------------------------------
(* The side panel *)

\* SidePanelMgrState
SidePanelMgrState ==
    {"IDLE", "WAIT_FOR_CONNECTION_INIT", "WAIT_FOR_TASK_STARTED", "WAIT_FOR_PENDING_ACTION_INFO",
     "WAIT_FOR_MONITOR_RESPONSE", "WAIT_FOR_ACTION_PERFORMED_RECORD", "WAIT_FOR_TASK_ENDED"}

\* the result of a handler: the fields of the manager and of its elements
\* after it, and the messages it posted on the port
Handled(p, posted) == [panel |-> p, posted |-> posted]

\* setStatusWithDelayedClear: the status display, its details and the timer
\* that clears them are not part of the model
setStatusWithDelayedClear(p, status, hovertext) == p

\* reset
reset(p) ==
    [p EXCEPT !.state = "IDLE", !.taskSpecField = EmptyText, !.startButtonDisabled = FALSE,
              !.killButtonDisabled = TRUE, !.pendingActionDiv = [textContent |-> "", title |-> ""],
              !.monitorFeedbackField = "", !.monitorFeedbackFieldDisabled = TRUE,
              !.monitorApproveButtonDisabled = TRUE, !.monitorRejectButtonDisabled = TRUE]

\* a variant that does not clear serviceWorkerReady
establishServiceWorkerConnectionKeepingReady(p, connectThrows) ==
    [p EXCEPT !.state = "WAIT_FOR_CONNECTION_INIT",
              !.serviceWorkerPort = IF connectThrows THEN @ ELSE "connected"]

\* establishServiceWorkerConnection; when chrome.runtime.connect throws, the
\* two assignments before it have happened and the port is the one of before
establishServiceWorkerConnection(p, connectThrows) ==
    [p EXCEPT !.serviceWorkerReady = FALSE, !.state = "WAIT_FOR_CONNECTION_INIT",
              !.serviceWorkerPort = IF connectThrows THEN @ ELSE "connected"]

\* postMessage throws on a port that was disconnected
postMessageThrows(p) == p.serviceWorkerPort = "disconnected"

\* addHistoryEntry
addHistoryEntry(p, displayedText, hoverText, specialClass) ==
    [p EXCEPT !.historyList =
        Append(@, [textContent |-> displayedText, title |-> hoverText, class |-> specialClass])]

\* a variant that does not wait for the readiness of the service worker
startTaskClickHandlerBeforeReady(p, connectThrows) ==
    IF trim(p.taskSpecField) = EmptyText
    THEN Handled(setStatusWithDelayedClear(p,
            "task specification field is empty (or all whitespace), can't start agent", ""), <<>>)
    ELSE IF p.state # "IDLE"
    THEN Handled(setStatusWithDelayedClear(p,
            "another task is already running, cannot start task", ""), <<>>)
    ELSE IF p.serviceWorkerPort = "undefined"
    THEN Handled(establishServiceWorkerConnection(p, connectThrows), <<>>)
    ELSE IF postMessageThrows(p) THEN Handled(reset(p), <<>>)
    ELSE Handled([p EXCEPT !.state = "WAIT_FOR_TASK_STARTED",
                           !.historyList =
                               IF p.shouldWipeActionHistoryOnTaskStart THEN <<>> ELSE @],
                 <<[type |-> "START_TASK", taskSpecification |-> p.taskSpecField]>>)

\* startTaskClickHandler, inside the mutex
startTaskClickHandler(p, connectThrows) ==
    IF trim(p.taskSpecField) = EmptyText
    THEN Handled(setStatusWithDelayedClear(p,
            "task specification field is empty (or all whitespace), can't start agent", ""), <<>>)
    ELSE IF p.state # "IDLE"
    THEN Handled(setStatusWithDelayedClear(p,
            "another task is already running, cannot start task", ""), <<>>)
    ELSE IF p.serviceWorkerPort = "undefined"
    THEN LET warned == setStatusWithDelayedClear(p,
                "Connection to agent controller is missing, so cannot start task", "")
             established == establishServiceWorkerConnection(warned, connectThrows)
         IN  Handled(IF connectThrows
                     THEN setStatusWithDelayedClear(established,
                            "Error while trying to establish connection to agent controller", "")
                     ELSE established, <<>>)
    ELSE IF ~p.serviceWorkerReady
    THEN Handled(setStatusWithDelayedClear(p,
            "Agent controller not ready yet, please wait a moment and try again", ""), <<>>)
    ELSE LET taskSpec == p.taskSpecField
         IN  IF trim(taskSpec) = EmptyText
             THEN Handled([setStatusWithDelayedClear(p,
                    "task specification field became empty", "") EXCEPT !.state = "IDLE"], <<>>)
             ELSE IF postMessageThrows(p) THEN Handled(reset(p), <<>>)
             ELSE Handled([p EXCEPT !.state = "WAIT_FOR_TASK_STARTED",
                                    !.historyList =
                                        IF p.shouldWipeActionHistoryOnTaskStart THEN <<>> ELSE @],
                          <<[type |-> "START_TASK", taskSpecification |-> taskSpec]>>)

\* killTaskClickHandler, inside the mutex
killTaskClickHandler(p) ==
    IF p.state = "IDLE" \/ p.state = "WAIT_FOR_TASK_ENDED"
    THEN Handled(setStatusWithDelayedClear(p, "task is not in progress, cannot kill task", ""), <<>>)
    ELSE IF p.serviceWorkerPort = "undefined"
    THEN Handled(setStatusWithDelayedClear(p,
            "connection to agent controller does not exist, cannot kill task", ""), <<>>)
    ELSE IF postMessageThrows(p) THEN Handled(reset(p), <<>>)
    ELSE Handled([p EXCEPT !.state = "WAIT_FOR_TASK_ENDED"], <<[type |-> "KILL_TASK"]>>)

\* unaffiliatedLogsExportButtonClickHandler, inside the mutex
unaffiliatedLogsExportButtonClickHandler(p, connectThrows) ==
    IF p.serviceWorkerPort = "undefined"
    THEN LET warned == setStatusWithDelayedClear(p,
                "Connection to agent controller is missing, so cannot export non-task-specific logs", "")
             established == establishServiceWorkerConnection(warned, connectThrows)
         IN  Handled(IF connectThrows
                     THEN setStatusWithDelayedClear(established,
                            "Error while trying to establish connection to agent controller", "")
                     ELSE established, <<>>)
    ELSE IF ~p.serviceWorkerReady
    THEN Handled(setStatusWithDelayedClear(p,
            "Agent controller not ready yet, please wait a moment and try again", ""), <<>>)
    ELSE IF postMessageThrows(p) THEN Handled(reset(p), <<>>)
    ELSE Handled(p, <<[type |-> "EXPORT_UNAFFILIATED_LOGS"]>>)

\* a variant that does not look at the state
monitorApproveButtonClickHandlerInAnyState(p) ==
    IF ~p.cachedMonitorMode THEN Handled(p, <<>>)
    ELSE IF p.serviceWorkerPort = "undefined" THEN Handled(p, <<>>)
    ELSE IF postMessageThrows(p) THEN Handled(reset(p), <<>>)
    ELSE Handled([p EXCEPT !.state = "WAIT_FOR_ACTION_PERFORMED_RECORD",
                           !.pendingActionDiv = [textContent |-> "", title |-> ""]],
                 <<[type |-> "MONITOR_APPROVED"]>>)

\* monitorApproveButtonClickHandler: the test of the monitor mode, then the
\* rest inside the mutex
monitorApproveButtonClickHandler(p) ==
    IF ~p.cachedMonitorMode THEN Handled(p, <<>>)
    ELSE IF p.state # "WAIT_FOR_MONITOR_RESPONSE" THEN Handled(p, <<>>)
    ELSE IF p.serviceWorkerPort = "undefined" THEN Handled(p, <<>>)
    ELSE IF postMessageThrows(p) THEN Handled(reset(p), <<>>)
    ELSE Handled([p EXCEPT !.state = "WAIT_FOR_ACTION_PERFORMED_RECORD",
                           !.pendingActionDiv = [textContent |-> "", title |-> ""]],
                 <<[type |-> "MONITOR_APPROVED"]>>)

\* monitorRejectButtonClickHandler
monitorRejectButtonClickHandler(p) ==
    IF ~p.cachedMonitorMode THEN Handled(p, <<>>)
    ELSE IF p.state # "WAIT_FOR_MONITOR_RESPONSE" THEN Handled(p, <<>>)
    ELSE IF p.serviceWorkerPort = "undefined" THEN Handled(p, <<>>)
    ELSE LET feedbackText == p.monitorFeedbackField
         IN  IF postMessageThrows(p) THEN Handled(reset(p), <<>>)
             ELSE Handled([p EXCEPT !.state = "WAIT_FOR_PENDING_ACTION_INFO",
                                    !.pendingActionDiv = [textContent |-> "", title |-> ""],
                                    !.monitorFeedbackField = ""],
                          <<[type |-> "MONITOR_REJECTED", feedback |-> feedbackText]>>)

\* processErrorFromController
processErrorFromController(p, message) ==
    reset(setStatusWithDelayedClear(p, "Error: " \o message.msg, ""))

\* processConnectionReady; the first keep-alive ping is posted at once (the
\* pings its timer repeats post the same message and change nothing)
processConnectionReady(p) ==
    IF p.state # "WAIT_FOR_CONNECTION_INIT" THEN Handled(p, <<>>)
    ELSE IF p.serviceWorkerPort = "undefined" THEN Handled(p, <<>>)
    ELSE Handled([setStatusWithDelayedClear(p, "Agent controller connection ready", "")
                    EXCEPT !.serviceWorkerReady = TRUE, !.state = "IDLE"],
                 IF postMessageThrows(p) THEN <<>> ELSE <<[type |-> "KEEP_ALIVE"]>>)

\* a variant that takes the confirmation in every state
processTaskStartConfirmationInAnyState(p, message) ==
    IF message.success
    THEN LET started ==
                addHistoryEntry([p EXCEPT !.state = "WAIT_FOR_PENDING_ACTION_INFO"],
                                "Task started: " \o message.taskSpec,
                                "Task ID: " \o message.taskId, "task_start")
         IN  setStatusWithDelayedClear(
                [started EXCEPT !.startButtonDisabled = TRUE, !.killButtonDisabled = FALSE,
                                !.taskSpecField = EmptyText,
                                !.monitorFeedbackFieldDisabled =
                                    IF p.cachedMonitorMode THEN FALSE ELSE @],
                "Task " \o message.taskId \o " started successfully", "")
    ELSE setStatusWithDelayedClear([p EXCEPT !.state = "IDLE"],
                                   "Task start failed: " \o message.message, "")

\* processTaskStartConfirmation
processTaskStartConfirmation(p, message) ==
    IF p.state # "WAIT_FOR_TASK_STARTED" THEN p
    ELSE IF message.success
    THEN LET started ==
                addHistoryEntry([p EXCEPT !.state = "WAIT_FOR_PENDING_ACTION_INFO"],
                                "Task started: " \o message.taskSpec,
                                "Task ID: " \o message.taskId, "task_start")
         IN  setStatusWithDelayedClear(
                [started EXCEPT !.startButtonDisabled = TRUE, !.killButtonDisabled = FALSE,
                                !.taskSpecField = EmptyText,
                                !.monitorFeedbackFieldDisabled =
                                    IF p.cachedMonitorMode THEN FALSE ELSE @],
                "Task " \o message.taskId \o " started successfully", "")
    ELSE setStatusWithDelayedClear([p EXCEPT !.state = "IDLE"],
                                   "Task start failed: " \o message.message, "")

\* buildGenericActionDesc(action, elementData, value), a function of ./misc:
\* some text made from its three arguments
buildGenericActionDesc(actionInfo) ==
    actionInfo.action \o (IF actionInfo.elementData.defined THEN " on element" ELSE "")
    \o (IF actionInfo.value # "" THEN " with value " \o actionInfo.value ELSE "")

\* a variant that asks the monitor whatever the monitor mode
processActionCandidateAlwaysMonitored(p, message) ==
    IF p.state # "WAIT_FOR_MONITOR_RESPONSE" /\ p.state # "WAIT_FOR_PENDING_ACTION_INFO" THEN p
    ELSE [p EXCEPT !.monitorApproveButtonDisabled = FALSE,
                   !.monitorRejectButtonDisabled = FALSE,
                   !.state = "WAIT_FOR_MONITOR_RESPONSE",
                   !.pendingActionDiv =
                        [textContent |-> message.actionInfo.explanation,
                         title |-> buildGenericActionDesc(message.actionInfo)]]

\* processActionCandidate
processActionCandidate(p, message) ==
    IF p.state # "WAIT_FOR_MONITOR_RESPONSE" /\ p.state # "WAIT_FOR_PENDING_ACTION_INFO" THEN p
    ELSE LET pendingActionInfo == message.actionInfo
             moved ==
                IF p.cachedMonitorMode
                THEN [p EXCEPT !.monitorApproveButtonDisabled = FALSE,
                               !.monitorRejectButtonDisabled = FALSE,
                               !.state = "WAIT_FOR_MONITOR_RESPONSE"]
                ELSE [p EXCEPT !.state = "WAIT_FOR_ACTION_PERFORMED_RECORD"]
         IN  [moved EXCEPT !.pendingActionDiv =
                [textContent |-> pendingActionInfo.explanation,
                 title |-> buildGenericActionDesc(pendingActionInfo)]]

\* the texts processActionPerformedRecord shows for a record
historyTextsOf(message) ==
    LET successTxt == IF message.success THEN "SUCCEEDED" ELSE "FAILED"
        actionInfo == message.actionInfo
    IN  IF actionInfo.defined
        THEN IF actionInfo.elementData.defined
             THEN [displayText |->
                        successTxt \o ": " \o actionInfo.action
                        \o (IF actionInfo.value # "" THEN " with value: " \o actionInfo.value ELSE "")
                        \o " on a " \o actionInfo.elementData.tagName \o " element; "
                        \o message.explanation,
                   hoverText |-> "Element description: " \o actionInfo.elementData.description
                                 \o "; Action full description: " \o message.actionDesc]
             ELSE [displayText |-> successTxt \o ": " \o message.actionDesc \o "; "
                                   \o message.explanation,
                   hoverText |-> "Action name " \o actionInfo.action \o "; action value: "
                                 \o actionInfo.value]
        ELSE [displayText |-> successTxt \o ": " \o message.explanation,
              hoverText |-> "Action: " \o message.actionDesc]

\* processActionPerformedRecord
processActionPerformedRecord(p, message) ==
    IF p.state # "WAIT_FOR_MONITOR_RESPONSE" /\ p.state # "WAIT_FOR_ACTION_PERFORMED_RECORD" THEN p
    ELSE LET texts == historyTextsOf(message)
             added == addHistoryEntry(p, texts.displayText, texts.hoverText, "")
             cleared ==
                IF p.cachedMonitorMode
                THEN [added EXCEPT !.monitorFeedbackField = "",
                                   !.monitorApproveButtonDisabled = TRUE,
                                   !.monitorRejectButtonDisabled = TRUE]
                ELSE added
         IN  [cleared EXCEPT !.state = "WAIT_FOR_PENDING_ACTION_INFO",
                             !.pendingActionDiv = [textContent |-> "", title |-> ""]]

\* a variant that records the end of the task whatever the state
processTaskEndConfirmationAlwaysRecorded(p, message) ==
    reset(addHistoryEntry(
            setStatusWithDelayedClear(p, "Task " \o message.taskId \o " ended", message.details),
            "Task ended",
            "Ended task id: " \o message.taskId \o " for reason " \o message.details,
            "task_end"))

\* processTaskEndConfirmation
processTaskEndConfirmation(p, message) ==
    IF p.state = "WAIT_FOR_TASK_STARTED"
    THEN reset(setStatusWithDelayedClear(p, "Task start failed", message.details))
    ELSE reset(addHistoryEntry(
                setStatusWithDelayedClear(p, "Task " \o message.taskId \o " ended", message.details),
                "Task ended",
                "Ended task id: " \o message.taskId \o " for reason " \o message.details,
                "task_end"))

\* handleAgentControllerMsg: the processing of a message of the controller
handleAgentControllerMsg(p, message) ==
    CASE message.type = "AGENT_CONTROLLER_READY" -> processConnectionReady(p)
      [] message.type = "TASK_STARTED" -> Handled(processTaskStartConfirmation(p, message), <<>>)
      [] message.type = "ACTION_CANDIDATE" -> Handled(processActionCandidate(p, message), <<>>)
      [] message.type = "TASK_HISTORY_ENTRY" -> Handled(processActionPerformedRecord(p, message), <<>>)
      [] message.type = "TASK_ENDED" -> Handled(processTaskEndConfirmation(p, message), <<>>)
      [] message.type = "ERROR" -> Handled(processErrorFromController(p, message), <<>>)
      [] message.type = "NOTIFICATION" ->
            Handled(setStatusWithDelayedClear(p, message.msg, message.details), <<>>)
      [] OTHER -> Handled(p, <<>>)

\* handleAgentControllerDisconnect
handleAgentControllerDisconnect(p, connectThrows) ==
    establishServiceWorkerConnection(
        reset(setStatusWithDelayedClear([p EXCEPT !.onDisconnectPending = FALSE],
                                        "Agent controller connection lost", "")),
        connectThrows)

\* handleMonitorModeCacheUpdate (the heights and the display of the monitor
\* mode container are not part of the model)
handleMonitorModeCacheUpdate(p, newMonitorModeVal) ==
    [p EXCEPT !.cachedMonitorMode = newMonitorModeVal]

\* validateAndApplySidePanelOptions, for a boolean value or undefined
validateAndApplySidePanelOptions(p, newVal) ==
    IF newVal.defined THEN [p EXCEPT !.shouldWipeActionHistoryOnTaskStart = newVal.value] ELSE p

-----------------------------------------------------------------------------
(* The side panel, its user and the agent controller *)

\* the longest history list
MaxHistory == 2

\* the panel after its constructor: the connection is being initialised
\* (or both attempts to connect threw), the two options have their defaults;
\* the controls are enabled or disabled as the page of the panel declares them
ConstructedPanels ==
    {[establishServiceWorkerConnection(
        [controls EXCEPT !.cachedMonitorMode = defaultIsMonitorMode,
                         !.shouldWipeActionHistoryOnTaskStart = defaultShouldWipe], connectThrows)
        EXCEPT !.onDisconnectPending = FALSE] :
        controls \in {SidePanelFields,
                      [SidePanelFields EXCEPT !.killButtonDisabled = TRUE,
                                              !.monitorFeedbackFieldDisabled = TRUE,
                                              !.monitorApproveButtonDisabled = TRUE,
                                              !.monitorRejectButtonDisabled = TRUE]},
        defaultIsMonitorMode \in BOOLEAN, defaultShouldWipe \in BOOLEAN,
        connectThrows \in BOOLEAN}

ActionInfos ==
    {[defined |-> TRUE, explanation |-> "why", action |-> "click", value |-> "",
      elementData |-> [defined |-> TRUE, tagName |-> "a", description |-> "link"]],
     [defined |-> TRUE, explanation |-> "why", action |-> "type", value |-> "v", elementData |-> Undefined]}

\* the messages of the agent controller
ControllerMessages ==
    {[type |-> "AGENT_CONTROLLER_READY"],
     [type |-> "TASK_STARTED", success |-> TRUE, taskId |-> "1", taskSpec |-> "t"],
     [type |-> "TASK_STARTED", success |-> FALSE, message |-> "busy"],
     [type |-> "TASK_ENDED", taskId |-> "1", details |-> "done"],
     [type |-> "ERROR", msg |-> "oops"],
     [type |-> "NOTIFICATION", msg |-> "note", details |-> ""],
     [type |-> "HISTORY_EXPORT"]}
    \cup {[type |-> "ACTION_CANDIDATE", actionInfo |-> a] : a \in ActionInfos}
    \cup {[type |-> "TASK_HISTORY_ENTRY", actionDesc |-> "desc", success |-> FALSE,
           explanation |-> "why", actionInfo |-> Undefined]}
    \cup {[type |-> "TASK_HISTORY_ENTRY", actionDesc |-> "desc", success |-> TRUE,
           explanation |-> "why", actionInfo |-> a] : a \in ActionInfos}

TaskSpecifications == {EmptyText, <<" ">>, <<"t">>}

pageVars == <<dom, layout, viewport, cachedIframeTree, cachedShadowRootHostChildrenOfMainDoc,
              treeBuilds, documentHostChain, activeElement, panelRuntime>>

InitPanel ==
    /\ dom = <<>>
    /\ layout = <<>>
    /\ viewport = [width |-> 50, height |-> 50]
    /\ CachesUntouched
    /\ NothingFocused
    /\ PanelRuntimeAtRest
    /\ sidePanel \in ConstructedPanels
    /\ call = [op |-> "constructor"]

\* the user types in the field of the task specification
EditTaskSpec ==
    \E text \in TaskSpecifications :
        /\ sidePanel' = [sidePanel EXCEPT !.taskSpecField = text]
        /\ call' = [op |-> "edit", input |-> [type |-> "input"], posted |-> <<>>]
        /\ UNCHANGED pageVars

\* the user types in the field of the feedback to the agent
EditMonitorFeedback ==
    /\ ~sidePanel.monitorFeedbackFieldDisabled
    /\ \E text \in {"", "no"} :
          sidePanel' = [sidePanel EXCEPT !.monitorFeedbackField = text]
    /\ call' = [op |-> "edit", input |-> [type |-> "input"], posted |-> <<>>]
    /\ UNCHANGED pageVars

StartTaskClick ==
    \E connectThrows \in BOOLEAN :
        \E handled \in {startTaskClickHandler(sidePanel, connectThrows)} :
            /\ Len(handled.panel.historyList) <= MaxHistory
            /\ sidePanel' = handled.panel
            /\ call' = [op |-> "startTaskClickHandler", input |-> [connectThrows |-> connectThrows],
                        posted |-> handled.posted]
            /\ UNCHANGED pageVars

KillTaskClick ==
    \E handled \in {killTaskClickHandler(sidePanel)} :
        /\ Len(handled.panel.historyList) <= MaxHistory
        /\ sidePanel' = handled.panel
        /\ call' = [op |-> "killTaskClickHandler", input |-> [type |-> "click"],
                    posted |-> handled.posted]
        /\ UNCHANGED pageVars

UnaffiliatedLogsExportButtonClick ==
    \E connectThrows \in BOOLEAN :
        \E handled \in {unaffiliatedLogsExportButtonClickHandler(sidePanel, connectThrows)} :
            /\ Len(handled.panel.historyList) <= MaxHistory
            /\ sidePanel' = handled.panel
            /\ call' = [op |-> "unaffiliatedLogsExportButtonClickHandler", input |-> [connectThrows |-> connectThrows],
                        posted |-> handled.posted]
            /\ UNCHANGED pageVars

MonitorApproveButtonClick ==
    \E handled \in {monitorApproveButtonClickHandler(sidePanel)} :
        /\ Len(handled.panel.historyList) <= MaxHistory
        /\ sidePanel' = handled.panel
        /\ call' = [op |-> "monitorApproveButtonClickHandler", input |-> [type |-> "click"],
                    posted |-> handled.posted]
        /\ UNCHANGED pageVars

MonitorRejectButtonClick ==
    \E handled \in {monitorRejectButtonClickHandler(sidePanel)} :
        /\ Len(handled.panel.historyList) <= MaxHistory
        /\ sidePanel' = handled.panel
        /\ call' = [op |-> "monitorRejectButtonClickHandler", input |-> [type |-> "click"],
                    posted |-> handled.posted]
        /\ UNCHANGED pageVars

\* a message of the controller arrives on the connected port
HandleAgentControllerMsg ==
    /\ sidePanel.serviceWorkerPort = "connected"
    /\ \E message \in ControllerMessages :
           \E handled \in {handleAgentControllerMsg(sidePanel, message)} :
               /\ Len(handled.panel.historyList) <= MaxHistory
               /\ sidePanel' = handled.panel
               /\ call' = [op |-> "handleAgentControllerMsg", input |-> message,
                           posted |-> handled.posted]
               /\ UNCHANGED pageVars

\* the port is disconnected; its onDisconnect listener has not run yet
PortDisconnects ==
    /\ sidePanel.serviceWorkerPort = "connected"
    /\ sidePanel' = [sidePanel EXCEPT !.serviceWorkerPort = "disconnected",
                                      !.onDisconnectPending = TRUE]
    /\ call' = [op |-> "disconnect", input |-> [type |-> "disconnect"], posted |-> <<>>]
    /\ UNCHANGED pageVars

HandleAgentControllerDisconnect ==
    /\ sidePanel.onDisconnectPending
    /\ \E connectThrows \in BOOLEAN :
           \E handled \in {Handled(handleAgentControllerDisconnect(sidePanel, connectThrows), <<>>)} :
               /\ Len(handled.panel.historyList) <= MaxHistory
               /\ sidePanel' = handled.panel
               /\ call' = [op |-> "handleAgentControllerDisconnect", input |-> [connectThrows |-> connectThrows],
                           posted |-> handled.posted]
               /\ UNCHANGED pageVars

HandleMonitorModeCacheUpdate ==
    \E newMonitorModeVal \in BOOLEAN :
        \E handled \in {Handled(handleMonitorModeCacheUpdate(sidePanel, newMonitorModeVal), <<>>)} :
            /\ Len(handled.panel.historyList) <= MaxHistory
            /\ sidePanel' = handled.panel
            /\ call' = [op |-> "handleMonitorModeCacheUpdate", input |-> [newMonitorModeVal |-> newMonitorModeVal],
                        posted |-> handled.posted]
            /\ UNCHANGED pageVars

ValidateAndApplySidePanelOptions ==
    \E newVal \in {Undefined} \cup {[defined |-> TRUE, value |-> b] : b \in BOOLEAN} :
        \E handled \in {Handled(validateAndApplySidePanelOptions(sidePanel, newVal), <<>>)} :
            /\ Len(handled.panel.historyList) <= MaxHistory
            /\ sidePanel' = handled.panel
            /\ call' = [op |-> "validateAndApplySidePanelOptions", input |-> newVal,
                        posted |-> handled.posted]
            /\ UNCHANGED pageVars

NextPanel ==
    \/ EditTaskSpec
    \/ EditMonitorFeedback
    \/ StartTaskClick
    \/ KillTaskClick
    \/ UnaffiliatedLogsExportButtonClick
    \/ MonitorApproveButtonClick
    \/ MonitorRejectButtonClick
    \/ HandleAgentControllerMsg
    \/ PortDisconnects
    \/ HandleAgentControllerDisconnect
    \/ HandleMonitorModeCacheUpdate
    \/ ValidateAndApplySidePanelOptions

SpecPanel == InitPanel /\ [][NextPanel]_vars

-----------------------------------------------------------------------------
(* The handlers of the side panel, call by call and callback by callback *)

\* Every handler gives its work to mutex.runExclusive as a callback.  No
\* callback has an await inside, so a callback runs in one piece, after the
\* callbacks that were given before it.  Here further events may come between
\* the call of runExclusive and the run of its callback; the event loop of a
\* browser, which runs the callback of a free mutex before it takes the next
\* event, allows fewer orders than that.

\* the most events (messages sent, clicks, disconnections) of a behaviour
MaxEvents == 4
\* the most messages on their way to the panel
MaxInFlight == 2
\* the most callbacks in the mutex when a click comes
MaxWaiting == 2

\* a variant of the mutex that runs the newest callback first
runExclusiveNewestFirst(queue, callback) == <<callback>> \o queue

\* Mutex.runExclusive: the callback runs when the ones given before it have run
runExclusive(queue, callback) == Append(queue, callback)

\* a callback given to runExclusive: the handler it belongs to, the message
\* of the handler (or the event) and, for a message, its rank among the
\* messages the controller sent
Callback(handler, message, seq) == [handler |-> handler, message |-> message, seq |-> seq]

\* the types of message handleAgentControllerMsg processes inside the mutex
typesProcessedInMutex ==
    {"AGENT_CONTROLLER_READY", "TASK_STARTED", "ACTION_CANDIDATE", "TASK_HISTORY_ENTRY",
     "TASK_ENDED", "ERROR"}

\* the callback of a handler, run on the fields of the panel
runCallback(callback, p, connectThrows) ==
    CASE callback.handler = "startTaskClickHandler" -> startTaskClickHandler(p, connectThrows)
      [] callback.handler = "killTaskClickHandler" -> killTaskClickHandler(p)
      [] callback.handler = "handleAgentControllerMsg" ->
            handleAgentControllerMsg(p, callback.message)
      [] callback.handler = "handleAgentControllerDisconnect" ->
            Handled(handleAgentControllerDisconnect(p, connectThrows), <<>>)

\* the messages of the agent controller
MessagesSent ==
    {[type |-> "AGENT_CONTROLLER_READY"],
     [type |-> "TASK_STARTED", success |-> TRUE, taskId |-> "1", taskSpec |-> "t"],
     [type |-> "ACTION_CANDIDATE",
      actionInfo |-> [defined |-> TRUE, explanation |-> "why", action |-> "type", value |-> "v",
                      elementData |-> Undefined]],
     [type |-> "TASK_HISTORY_ENTRY", actionDesc |-> "desc", success |-> FALSE,
      explanation |-> "why", actionInfo |-> Undefined],
     [type |-> "TASK_ENDED", taskId |-> "1", details |-> "done"],
     [type |-> "ERROR", msg |-> "oops"],
     [type |-> "NOTIFICATION", msg |-> "note", details |-> ""]}

analysisVars == <<dom, layout, viewport, cachedIframeTree, cachedShadowRootHostChildrenOfMainDoc,
                  treeBuilds, documentHostChain, activeElement>>

\* the panel after its constructor, on a page that declares the task controls
\* disabled, with a port; a task specification is typed already
InitMutex ==
    /\ dom = <<>>
    /\ layout = <<>>
    /\ viewport = [width |-> 50, height |-> 50]
    /\ CachesUntouched
    /\ NothingFocused
    /\ PanelRuntimeAtRest
    /\ \E p \in ConstructedPanels :
          /\ p.serviceWorkerPort = "connected"
          /\ p.killButtonDisabled
          /\ ~p.shouldWipeActionHistoryOnTaskStart
          /\ sidePanel = [p EXCEPT !.taskSpecField = <<"t">>]
    /\ call = [op |-> "constructor", phase |-> "call", input |-> Undefined, posted |-> <<>>]

\* the user types a task specification in the empty field
TypeTaskSpec ==
    /\ sidePanel.taskSpecField = EmptyText
    /\ sidePanel' = [sidePanel EXCEPT !.taskSpecField = <<"t">>]
    /\ call' = [op |-> "edit", phase |-> "call", input |-> Undefined, posted |-> <<>>]
    /\ UNCHANGED <<analysisVars, panelRuntime>>

\* the agent controller sends a message on the port
ControllerSends ==
    /\ sidePanel.serviceWorkerPort = "connected"
    /\ events < MaxEvents
    /\ Len(portInbox) < MaxInFlight
    /\ \E message \in MessagesSent :
          /\ portInbox' = Append(portInbox, [seq |-> events + 1, message |-> message])
          /\ call' = [op |-> "postMessage", phase |-> "call", input |-> message,
                      posted |-> <<>>]
    /\ events' = events + 1
    /\ UNCHANGED <<analysisVars, sidePanel, mutex>>

\* handleAgentControllerMsg is called with the oldest message on its way:
\* a message that changes the task is given to the mutex, another one (a
\* notification) only changes the status display
PortMessageReceived ==
    /\ portInbox # <<>>
    /\ \E entry \in {Head(portInbox)} :
          /\ mutex' = IF entry.message.type \in typesProcessedInMutex
                      THEN runExclusive(mutex, Callback("handleAgentControllerMsg",
                                                        entry.message, entry.seq))
                      ELSE mutex
          /\ sidePanel' = IF entry.message.type = "NOTIFICATION"
                          THEN setStatusWithDelayedClear(sidePanel, entry.message.msg,
                                                         entry.message.details)
                          ELSE sidePanel
          /\ call' = [op |-> "handleAgentControllerMsg", phase |-> "call",
                      input |-> entry.message, posted |-> <<>>]
    /\ portInbox' = Tail(portInbox)
    /\ UNCHANGED <<analysisVars, events>>

\* startTaskClickHandler is called
StartTaskClicked ==
    /\ events < MaxEvents
    /\ Len(mutex) < MaxWaiting
    /\ mutex' = runExclusive(mutex, Callback("startTaskClickHandler", [type |-> "click"], 0))
    /\ events' = events + 1
    /\ call' = [op |-> "startTaskClickHandler", phase |-> "call", input |-> [type |-> "click"],
                posted |-> <<>>]
    /\ UNCHANGED <<analysisVars, sidePanel, portInbox>>

\* killTaskClickHandler is called
KillTaskClicked ==
    /\ events < MaxEvents
    /\ Len(mutex) < MaxWaiting
    /\ mutex' = runExclusive(mutex, Callback("killTaskClickHandler", [type |-> "click"], 0))
    /\ events' = events + 1
    /\ call' = [op |-> "killTaskClickHandler", phase |-> "call", input |-> [type |-> "click"],
                posted |-> <<>>]
    /\ UNCHANGED <<analysisVars, sidePanel, portInbox>>

\* the port is disconnected: the messages on their way are lost
PortDisconnected ==
    /\ sidePanel.serviceWorkerPort = "connected"
    /\ events < MaxEvents
    /\ sidePanel' = [sidePanel EXCEPT !.serviceWorkerPort = "disconnected",
                                      !.onDisconnectPending = TRUE]
    /\ portInbox' = <<>>
    /\ events' = events + 1
    /\ call' = [op |-> "disconnect", phase |-> "call", input |-> [type |-> "disconnect"],
                posted |-> <<>>]
    /\ UNCHANGED <<analysisVars, mutex>>

\* handleAgentControllerDisconnect is called
DisconnectReceived ==
    /\ sidePanel.onDisconnectPending
    /\ sidePanel' = setStatusWithDelayedClear([sidePanel EXCEPT !.onDisconnectPending = FALSE],
                                              "Agent controller connection lost", "")
    /\ mutex' = runExclusive(mutex, Callback("handleAgentControllerDisconnect",
                                             [type |-> "disconnect"], 0))
    /\ call' = [op |-> "handleAgentControllerDisconnect", phase |-> "call",
                input |-> [type |-> "disconnect"], posted |-> <<>>]
    /\ UNCHANGED <<analysisVars, portInbox, events>>

\* the mutex runs the callback of its holder and releases
RunCallback ==
    /\ mutex # <<>>
    /\ \E connectThrows \in BOOLEAN :
          \E handled \in {runCallback(Head(mutex), sidePanel, connectThrows)} :
              /\ sidePanel' = handled.panel
              /\ call' = [op |-> Head(mutex).handler, phase |-> "callback",
                          input |-> Head(mutex), posted |-> handled.posted]
    /\ mutex' = Tail(mutex)
    /\ UNCHANGED <<analysisVars, portInbox, events>>

NextMutex ==
    \/ TypeTaskSpec
    \/ ControllerSends
    \/ PortMessageReceived
    \/ StartTaskClicked
    \/ KillTaskClicked
    \/ PortDisconnected
    \/ DisconnectReceived
    \/ RunCallback

SpecMutex == InitMutex /\ [][NextMutex]_vars

\* the event loop gives every message on its way to the listener of the
\* port, and the mutex runs every callback it was given
SpecMutexFair == SpecMutex /\ WF_vars(PortMessageReceived) /\ WF_vars(RunCallback)

-----------------------------------------------------------------------------
(* Hit testing, call by call *)

\* domHelper.elementsFromPoint: the elements of the search context whose box
\* holds the point, given in the coordinates of the document of the search
\* context; the element that comes last in the document is painted last and
\* comes first
elementsFromPoint(x, y, searchDom) ==
    LET at == SortedSeq({e \in Elems :
                    /\ dom[e].root = searchDom
                    /\ x >= dom[e].rect.x /\ x < dom[e].rect.x + dom[e].rect.width
                    /\ y >= dom[e].rect.y /\ y < dom[e].rect.y + dom[e].rect.height})
    IN  [i \in 1 .. Len(at) |-> at[Len(at) + 1 - i]]

\* findShadowRootHostAtPos: the first host whose box holds the point, or undefined (null here)
findShadowRootHostAtPos(xPos, yPos, shadowRootHostChildren) ==
    LET relevantShadowRootHosts ==
            SelectSeq(shadowRootHostChildren,
                      LAMBDA elem :
                        /\ xPos >= dom[elem].rect.x
                        /\ xPos <= dom[elem].rect.x + dom[elem].rect.width
                        /\ yPos >= dom[elem].rect.y
                        /\ yPos <= dom[elem].rect.y + dom[elem].rect.height)
    IN  IF Len(relevantShadowRootHosts) > 0 THEN relevantShadowRootHosts[1] ELSE NULL

\* the outcome of a call of actualElementFromPoint that returns what the
\* call it made returns: the calls are this one and the ones below it
descended(here, below, treeFetched, hostsInitialized) ==
    [element |-> below.element, calls |-> <<here>> \o below.calls,
     treeFetched |-> treeFetched \/ below.treeFetched,
     hostsInitialized |-> hostsInitialized \/ below.hostsInitialized]

RECURSIVE actualElementFromPointCallByCall(_, _, _)
\* actualElementFromPoint with its descent: the element it returns, the
\* arguments of the call and of every call it makes of itself, in order, and
\* whether it asked for the iframe tree and for the list of the shadow-root
\* hosts of the main document
actualElementFromPointCallByCall(x, y, searchDom) ==
    LET here == [searchDom |-> searchDom, x |-> x, y |-> y]
        ends(element, treeFetched, hostsInitialized) ==
            [element |-> element, calls |-> <<here>>, treeFetched |-> treeFetched,
             hostsInitialized |-> hostsInitialized]
        elemsAtPoint == elementsFromPoint(x, y, searchDom)
        searchContextHost == IF isShadowRoot(searchDom) THEN searchDom ELSE NULL
        foremostElemAtPoint ==
            IF elemsAtPoint = <<>> \/ elemsAtPoint[1] = searchContextHost THEN NULL
            ELSE elemsAtPoint[1]
    IN  IF x < 0 \/ y < 0 \/ x >= viewport.width \/ y >= viewport.height
        THEN ends(NULL, FALSE, FALSE)
        ELSE IF foremostElemAtPoint = NULL
        THEN LET hosts ==
                    IF searchDom = TopDoc
                    THEN IF cachedShadowRootHostChildrenOfMainDoc.defined
                         THEN cachedShadowRootHostChildrenOfMainDoc.hosts
                         ELSE initializeCacheOfShadowRootHostChildrenOfMainDoc.hosts
                    ELSE SelectSeq(fetchElementsByCss("*", searchDom),
                                   LAMBDA elem : dom[elem].shadowRoot)
                 currScopeShadowRootHostAtMousePos == findShadowRootHostAtPos(x, y, hosts)
             IN  IF currScopeShadowRootHostAtMousePos # NULL
                    /\ dom[currScopeShadowRootHostAtMousePos].shadowRoot
                 THEN descended(here,
                        actualElementFromPointCallByCall(x, y, currScopeShadowRootHostAtMousePos),
                        FALSE, searchDom = TopDoc)
                 ELSE ends(NULL, FALSE, searchDom = TopDoc)
        ELSE IF isIframe(foremostElemAtPoint)
        THEN LET tree == fetchAndCacheIframeTree.tree
             IN  IF foremostElemAtPoint \in DOMAIN tree.nodes
                    /\ getIframeContent(foremostElemAtPoint).doc # NoDoc
                 THEN LET iframeNode == tree.nodes[foremostElemAtPoint]
                      IN  descended(here,
                            actualElementFromPointCallByCall(
                                x - iframeNode.offset.x, y - iframeNode.offset.y,
                                getIframeContent(foremostElemAtPoint).doc),
                            TRUE, FALSE)
                 ELSE ends(foremostElemAtPoint, TRUE, FALSE)
        ELSE IF dom[foremostElemAtPoint].shadowRoot
        THEN IF foremostElemAtPoint # searchDom
             THEN descended(here, actualElementFromPointCallByCall(x, y, foremostElemAtPoint),
                            FALSE, FALSE)
             ELSE ends(foremostElemAtPoint, FALSE, FALSE)
        ELSE ends(foremostElemAtPoint, FALSE, FALSE)

-----------------------------------------------------------------------------
(* Pages of nested iframes, for the hit tests *)

\* the deepest nesting of iframes
MaxIframeDepth == 2

\* where an iframe element stands in the document that holds it
IframePlaces == {[x |-> x, y |-> y] : x \in {0, 4}, y \in {0, 6}}

\* the coordinates of the points, of the top viewport, that are hit-tested
PointCoordinates == {2, 9, 14, 21}

\* iframe i stands in the document of iframe i - 1 and is smaller than it;
\* a link fills the top left of the innermost document
NestedIframePage(places) ==
    [id \in 1 .. Len(places) + 1 |->
        IF id <= Len(places)
        THEN [PlainElem EXCEPT !.tag = "iframe", !.accessible = TRUE, !.root = id - 1,
                               !.rect = Rect(places[id].x, places[id].y, 40 - 8 * id, 40 - 8 * id)]
        ELSE [PlainElem EXCEPT !.tag = "a", !.matches = {"a"}, !.root = id - 1,
                               !.rect = Rect(0, 0, 12, 12)]]

InitDescent ==
    /\ OtherPartsAtRest
    /\ \E n \in 1 .. MaxIframeDepth :
          \E places \in [1 .. n -> IframePlaces] : dom = NestedIframePage(places)
    /\ layout = <<>>
    /\ viewport = [width |-> 50, height |-> 50]
    /\ CachesUntouched
    /\ call = [op |-> "init"]

\* actualElementFromPoint(x, y): no search context
ActualElementFromPoint ==
    \E x \in PointCoordinates, y \in PointCoordinates :
        \E r \in {actualElementFromPointCallByCall(x, y, TopDoc)} :
            /\ cachedIframeTree' =
                    IF r.treeFetched THEN fetchAndCacheIframeTree.tree ELSE cachedIframeTree
            /\ treeBuilds' =
                    IF r.treeFetched THEN treeBuilds + fetchAndCacheIframeTree.built ELSE treeBuilds
            /\ cachedShadowRootHostChildrenOfMainDoc' =
                    IF r.hostsInitialized /\ ~cachedShadowRootHostChildrenOfMainDoc.defined
                    THEN initializeCacheOfShadowRootHostChildrenOfMainDoc
                    ELSE cachedShadowRootHostChildrenOfMainDoc
            /\ call' = [op |-> "actualElementFromPoint", x |-> x, y |-> y,
                        element |-> r.element, calls |-> r.calls]
            /\ UNCHANGED <<otherParts, dom, layout, viewport, documentHostChain>>

NextDescent == ActualElementFromPoint

SpecDescent == InitDescent /\ [][NextDescent]_vars

-----------------------------------------------------------------------------
(* Claims about calcIsHidden and isBuriedInBackground, under SpecVisibility *)

calledHidden == call.op = "calcIsHidden"

someChildIsVisible(element, iframeNode) ==
    \E child \in children(element) : ~calcIsHidden(child, iframeNode, FALSE)

\* C4 as stated: calcIsHidden returns true for every element that has the
\* hidden attribute or computed display none, whatever its size, position,
\* display variant, children, hit-test results and isDocHostElem.
C4_HiddenAttrOrDisplayNoneIsHidden ==
    (calledHidden /\ (dom[call.element].hidden \/ dom[call.element].display = "none"))
        => call.ret = TRUE

\* C4 amended: calcIsHidden returns true for every element whose computed
\* display is none; for an element that has the hidden attribute it returns
\* false when the computed display contains 'inline' and one of its children
\* is not hidden, and true in every other case; whatever the size, position,
\* hit-test results and isDocHostElem.
C4_HiddenUnlessInlineWithVisibleChild ==
    /\ (calledHidden /\ dom[call.element].display = "none") => call.ret = TRUE
    /\ (calledHidden /\ dom[call.element].hidden) =>
            (call.ret = ~(/\ hasInline(dom[call.element].display)
                          /\ someChildIsVisible(call.element, call.iframeNode)))

\* an element with the hidden attribute and nothing else against it (a block
\* of full size, in the foreground, with a visible child) was found hidden
C4_Witness ==
    /\ calledHidden
    /\ dom[call.element].hidden
    /\ dom[call.element].display = "block" /\ dom[call.element].visibility = "visible"
    /\ dom[call.element].rect = Rect(0, 0, 4, 4) /\ dom[call.element].cssWidth = "10px"
    /\ dom[call.element].cssHeight = "10px" /\ dom[call.element].opacity = "1"
    /\ ~isBuriedInBackground(call.element, call.iframeNode)
    /\ someChildIsVisible(call.element, call.iframeNode)
    /\ call.ret = TRUE

\* C5 as stated: calcIsHidden returns true for every element that is not a
\* shadow-root host and has a bounding box of zero width or zero height,
\* whatever its display and whatever the visibility of its children.
C5_ZeroAreaIsHidden ==
    (/\ calledHidden
     /\ ~dom[call.element].shadowRoot
     /\ (dom[call.element].rect.width = 0 \/ dom[call.element].rect.height = 0))
        => call.ret = TRUE

\* C5 amended: for an element that is not a shadow-root host and has a
\* bounding box of zero width or zero height, calcIsHidden returns false when
\* its computed display contains 'inline' and one of its children is not
\* hidden, and true in every other case.
C5_ZeroAreaIsHiddenUnlessInlineWithVisibleChild ==
    (/\ calledHidden
     /\ ~dom[call.element].shadowRoot
     /\ (dom[call.element].rect.width = 0 \/ dom[call.element].rect.height = 0))
        => (call.ret = ~(/\ hasInline(dom[call.element].display)
                         /\ someChildIsVisible(call.element, call.iframeNode)))

\* a zero-width inline element that is not a host, with a hidden child only,
\* was tested and found hidden
C5_Witness ==
    /\ calledHidden
    /\ ~dom[call.element].shadowRoot
    /\ dom[call.element].rect.width = 0
    /\ hasInline(dom[call.element].display)
    /\ children(call.element) # {}
    /\ ~dom[call.element].hidden /\ dom[call.element].display # "none"
    /\ call.ret = TRUE

calledBuried == call.op = "isBuriedInBackground"

\* the element has a non-degenerate box and is neither a select nor a checkbox
occlusionApplies(element) ==
    /\ dom[element].rect.width # 0 /\ dom[element].rect.height # 0
    /\ dom[element].tag # "select"
    /\ ~(dom[element].tag = "input" /\ dom[element].type = "checkbox")

\* the element is the hit-test result, or an ancestor of it, at sampled point i
foregroundAt(element, iframeNode, i) ==
    LET pt == queryPointsOf(dom[element].rect)[i]
    IN  contains(element, actualElementFromPoint(pt[1], pt[2], searchContextOf(iframeNode)))

\* C6: for an element with a non-degenerate box that is neither a select nor
\* a checkbox, isBuriedInBackground returns true exactly when the element is
\* in the foreground at none of the five sampled points, and every order of
\* evaluating the five points gives the same result.
C6_BuriedIffForegroundNowhere ==
    (calledBuried /\ occlusionApplies(call.element)) =>
        /\ call.ret = (\A i \in 1 .. 5 : ~foregroundAt(call.element, call.iframeNode, i))
        /\ \A order \in Permutations(1 .. 5) :
              isBuriedAt(call.element, call.iframeNode,
                         [i \in 1 .. 5 |-> queryPointsOf(dom[call.element].rect)[order[i]]])
                  = call.ret

\* the element is in the foreground at its fourth sampled point only, so the
\* loop passes three background points before it stops
C6_Witness ==
    /\ calledBuried /\ occlusionApplies(call.element)
    /\ \A i \in 1 .. 5 : foregroundAt(call.element, call.iframeNode, i) <=> (i = 4)
    /\ call.ret = FALSE

-----------------------------------------------------------------------------
(* Claims about element discovery and element data, under Spec *)

calledDiscovery == call.op = "getInteractiveElements"

\* the pass began with both caches undefined
cachesWereEmpty == ~call.treeBefore.defined /\ ~call.hostsBefore.defined

RECURSIVE isInside(_, _)
\* element e lies in the root owned by owner, or in a root nested in it
isInside(e, owner) ==
    /\ dom[e].root # TopDoc
    /\ (dom[e].root = owner \/ isInside(dom[e].root, owner))

RECURSIVE originOfEmbeddingIframes(_)
\* the sum of the local origins of the iframe elements that embed e, each
\* iframe once; a shadow-root host on the way adds nothing
originOfEmbeddingIframes(e) ==
    IF dom[e].root = TopDoc THEN [x |-> 0, y |-> 0]
    ELSE LET owner == dom[e].root
             up == originOfEmbeddingIframes(owner)
         IN  IF isIframe(owner)
             THEN [x |-> up.x + dom[owner].rect.x, y |-> up.y + dom[owner].rect.y]
             ELSE up

RECURSIVE iframeDepth(_)
\* the number of iframes that embed e
iframeDepth(e) ==
    IF dom[e].root = TopDoc THEN 0
    ELSE iframeDepth(dom[e].root) + (IF isIframe(dom[e].root) THEN 1 ELSE 0)

RECURSIVE scopeIsTraversed(_)
\* a pass that builds both caches from the page as it is enters the root: the
\* top document; the document of an accessible, not hidden iframe that stands
\* in a traversed document; the shadow root of a not hidden host that stands
\* in a traversed root
scopeIsTraversed(root) ==
    \/ root = TopDoc
    \/ /\ root # TopDoc
       /\ scopeIsTraversed(dom[root].root)
       /\ ~calcIsHidden(root, IframeNode(frameDocumentIn(dom, root)), TRUE)
       /\ \/ dom[root].shadowRoot
          \/ /\ isIframe(root)
             /\ ~accessThrows(root)
             /\ ~isShadowRoot(dom[root].root)

\* element e is interactive, passes the filter and is not hidden in its own scope
qualifies(e, excludeElemsOutsideViewport) ==
    LET node == IframeNode(frameDocumentIn(dom, e))
    IN  /\ (dom[e].onclick \/ \E i \in DOMAIN cssSelectors : cssSelectors[i] \in dom[e].matches)
        /\ elemFilter(e, node, excludeElemsOutsideViewport)
        /\ ~calcIsHidden(e, node, FALSE)

\* a pass on fresh caches returns every qualifying element of every traversed scope
returnsEveryTraversedScope ==
    \A e \in Elems :
        (scopeIsTraversed(dom[e].root) /\ qualifies(e, call.excludeElemsOutsideViewport))
            => e \in Range(call.elements)

\* C1: the array returned by one enhancedQuerySelectorAll call contains each
\* element at most once, for every page forest, a frame context that holds
\* both a shadow-root host and a child iframe included.
C1_EachElementReturnedOnce ==
    calledDiscovery =>
        \A i, j \in DOMAIN call.elements : call.elements[i] = call.elements[j] => i = j

\* C2: for every element a discovery pass returns, the top-left corner of the
\* bounding box built by getElementData is the element's local origin plus the
\* local origin of each embedding iframe, each iframe counted once; shadow
\* roots on the way add nothing.
C2_TopLeftIsLocalPlusEachIframeOnce ==
    calledDiscovery =>
        \A i \in DOMAIN call.data :
            LET e == call.data[i].element
            IN  /\ call.data[i].boundingBox.tLx = dom[e].rect.x + originOfEmbeddingIframes(e).x
                /\ call.data[i].boundingBox.tLy = dom[e].rect.y + originOfEmbeddingIframes(e).y

\* the pass returned no element twice
noDuplicates ==
    \A i, j \in DOMAIN call.elements : call.elements[i] = call.elements[j] => i = j

\* the compositional rule of C2 on the passes that return no element twice
C2_HoldsWithoutDuplicates ==
    (calledDiscovery /\ noDuplicates) => C2_TopLeftIsLocalPlusEachIframeOnce

\* a pass without duplicates resolved an element two iframes deep
C2_DepthTwoResolved ==
    /\ calledDiscovery /\ noDuplicates
    /\ \E i \in DOMAIN call.data : iframeDepth(call.data[i].element) = 2

\* C3: a discovery pass raises no exception, returns no element from inside an
\* iframe whose document cannot be accessed, and (on caches built from the
\* page as it is) still returns the elements of every other scope.
C3_InaccessibleIframeIsSkippedSilently ==
    calledDiscovery =>
        /\ ~call.threw
        /\ \A i \in DOMAIN call.elements :
              ~(\E f \in Elems : isIframe(f) /\ accessThrows(f) /\ isInside(call.elements[i], f))
        /\ cachesWereEmpty => returnsEveryTraversedScope

\* a pass over a page with a link inside an inaccessible iframe returned an
\* element of another scope and not that link
C3_Witness ==
    /\ calledDiscovery /\ cachesWereEmpty
    /\ \E f, e \in Elems :
          /\ isIframe(f) /\ accessThrows(f) /\ dom[f].root = TopDoc
          /\ dom[e].root = f /\ "a" \in dom[e].matches /\ dom[e].display = "block"
          /\ e \notin Range(call.elements)
    /\ call.elements # <<>>

\* C9: between two resets the IframeTree is built at most once and every
\* fetchAndCacheIframeTree call returns the cached instance; after
\* resetElementAnalysis the cached tree and the cached list of shadow-root
\* hosts are both empty; the next use builds each from the DOM of that moment.
C9_BuiltOncePerResetAndRebuiltAfter ==
    [][/\ treeBuilds' <= 1
       /\ (call'.op = "fetchAndCacheIframeTree") =>
              /\ call'.ret = cachedIframeTree'
              /\ cachedIframeTree.defined =>
                    (call'.ret = cachedIframeTree /\ treeBuilds' = treeBuilds)
       /\ (call'.op = "getInteractiveElements") =>
              /\ cachedIframeTree.defined => cachedIframeTree' = cachedIframeTree
              /\ cachedShadowRootHostChildrenOfMainDoc.defined =>
                    cachedShadowRootHostChildrenOfMainDoc' = cachedShadowRootHostChildrenOfMainDoc
              /\ ~cachedShadowRootHostChildrenOfMainDoc.defined =>
                    cachedShadowRootHostChildrenOfMainDoc' =
                        [defined |-> TRUE,
                         hosts |-> SortedSeq({h \in Elems : dom[h].root = TopDoc
                                                            /\ dom[h].shadowRoot})]
       /\ (call'.op \in {"fetchAndCacheIframeTree", "getInteractiveElements"}
           /\ ~cachedIframeTree.defined) =>
              (cachedIframeTree' = IframeTree /\ treeBuilds' = treeBuilds + 1)
       /\ (call'.op = "resetElementAnalysis") =>
              /\ ~cachedIframeTree'.defined
              /\ ~cachedShadowRootHostChildrenOfMainDoc'.defined
      ]_vars

\* fetchAndCacheIframeTree returned the tree built once, before the page got
\* the iframe it has now
C9_Witness ==
    /\ call.op = "fetchAndCacheIframeTree"
    /\ treeBuilds = 1
    /\ call.ret = cachedIframeTree
    /\ call.ret # IframeTree

\* a shadow-root host or an iframe of the main document that the caches the
\* pass began with do not hold
isNewSince(owner) ==
    /\ dom[owner].root = TopDoc
    /\ \/ /\ dom[owner].shadowRoot
          /\ call.hostsBefore.defined
          /\ owner \notin Range(call.hostsBefore.hosts)
       \/ /\ isIframe(owner)
          /\ call.treeBefore.defined
          /\ owner \notin DOMAIN call.treeBefore.nodes

\* C10: a discovery pass on caches filled before a shadow-root host or an
\* iframe was added to the main document raises no error and returns no
\* element located inside the new shadow root or iframe; a pass that begins
\* with empty caches, as after resetElementAnalysis, returns them.
C10_StaleCachesSilentlyMissNewScopes ==
    calledDiscovery =>
        /\ ~call.threw
        /\ \A i \in DOMAIN call.elements :
              ~(\E owner \in Elems : isNewSince(owner) /\ isInside(call.elements[i], owner))
        /\ cachesWereEmpty =>
              \A owner, e \in Elems :
                  (/\ dom[owner].root = TopDoc
                   /\ dom[e].root = owner
                   /\ scopeIsTraversed(owner)
                   /\ qualifies(e, call.excludeElemsOutsideViewport))
                      => e \in Range(call.elements)

\* a pass on stale caches missed a link that stands in a new shadow root of
\* the main document
C10_Witness ==
    /\ calledDiscovery
    /\ ~call.threw
    /\ \E owner, e \in Elems :
          /\ isNewSince(owner) /\ dom[owner].shadowRoot
          /\ dom[e].root = owner
          /\ scopeIsTraversed(owner)
          /\ qualifies(e, call.excludeElemsOutsideViewport)
          /\ e \notin Range(call.elements)

-----------------------------------------------------------------------------
(* Claims about the foreground judge, under SpecJudge *)

calledJudge == call.op = "judgeOverlappingElementsForForeground"

\* what the judge returns for the two elements of the last call, in the other order
judgeSwapped ==
    judgeOverlappingElementsForForeground(elementDataOf(call.elem2, <<>>),
                                          elementDataOf(call.elem1, <<>>))

\* C7: for every pair of descriptors A and B, the pair of two descriptors of
\* one element included, and every static layout, judge(A, B) = -judge(B, A).
C7_JudgeIsAntisymmetric ==
    calledJudge => call.ret = -judgeSwapped

\* the antisymmetry of C7 on the pairs of descriptors of two different elements
C7_AntisymmetricOnDifferentElements ==
    (calledJudge /\ call.elem1 # call.elem2) => call.ret = -judgeSwapped

\* the judge put one of two different elements, one inside the other, in front
C7_DifferentElementsJudged ==
    /\ calledJudge /\ call.elem1 # call.elem2
    /\ contains(call.elem1, call.elem2)
    /\ call.ret = -1

\* the intersection of the two bounding boxes is empty
overlapIsEmpty(elem1, elem2) ==
    LET r1 == dom[elem1].rect
        r2 == dom[elem2].rect
    IN  \/ Max(r1.x, r2.x) >= Min(r1.x + r1.width, r2.x + r2.width)
        \/ Max(r1.y, r2.y) >= Min(r1.y + r1.height, r2.y + r2.height)

\* C8: the judge returns 0 when the intersection is empty, without a hit
\* test, or the two counts are equal; 2 when n1 > 0 and n2 = 0; 1 when
\* n1 > n2 > 0; -2 when n2 > 0 and n1 = 0; -1 when n2 > n1 > 0; and every
\* sampled point increments at most one of the two counts.
C8_FiveWayResultFromTheCounts ==
    calledJudge =>
        LET n1 == call.numPointsWhereElem1IsForeground
            n2 == call.numPointsWhereElem2IsForeground
            elem1Data == elementDataOf(call.elem1, <<>>)
            elem2Data == elementDataOf(call.elem2, <<>>)
            queryPoints == findQueryPointsInOverlap(elem1Data, elem2Data)
            added(i) == foregroundIncrementsAt(elem1Data, elem2Data, queryPoints[i])
        IN  /\ overlapIsEmpty(call.elem1, call.elem2) => (call.ret = 0 /\ call.hitTests = 0)
            /\ n1 = n2 => call.ret = 0
            /\ (n1 > 0 /\ n2 = 0) => call.ret = 2
            /\ (n1 > n2 /\ n2 > 0) => call.ret = 1
            /\ (n2 > 0 /\ n1 = 0) => call.ret = -2
            /\ (n2 > n1 /\ n1 > 0) => call.ret = -1
            /\ \A i \in DOMAIN queryPoints : added(i).elem1 + added(i).elem2 <= 1
            /\ n1 = Cardinality({i \in DOMAIN queryPoints : added(i).elem1 = 1})
            /\ n2 = Cardinality({i \in DOMAIN queryPoints : added(i).elem2 = 1})
            /\ n1 + n2 <= call.hitTests

\* the first element is in front at more points than the second, which is in
\* front at one point at least
C8_Witness ==
    /\ calledJudge
    /\ call.numPointsWhereElem1IsForeground > call.numPointsWhereElem2IsForeground
    /\ call.numPointsWhereElem2IsForeground > 0
    /\ call.numPointsWhereElem1IsForeground + call.numPointsWhereElem2IsForeground
           < call.hitTests
    /\ call.ret = 1

-----------------------------------------------------------------------------
(* Claims about the filter and the container test, under SpecContainers *)

\* the frame context the pass tests element e in
frameContextOf(e) == IframeNode(frameDocumentIn(dom, e))

\* the iframe elements and shadow-root hosts whose roots e lies in
containersOf(e) == {c \in Elems : isInside(e, c)}

\* C11: every element getInteractiveElements returns was, when tested during
\* that pass, not disabled and not hidden, and it lies inside no iframe or
\* shadow root whose embedding iframe element or host the container test
\* classified as hidden.
C11_ReturnedElementsPassedEveryTest ==
    calledDiscovery =>
        \A i \in DOMAIN call.elements :
            LET e == call.elements[i]
            IN  /\ ~calcIsDisabled(e)
                /\ ~calcIsHidden(e, frameContextOf(e), FALSE)
                /\ \A c \in containersOf(e) : ~calcIsHidden(c, frameContextOf(c), TRUE)

\* a pass returned a link that stands two containers deep, on a page family
\* where links are disabled or hidden and containers are hidden
C11_Witness ==
    /\ calledDiscovery
    /\ \E i \in DOMAIN call.elements : Cardinality(containersOf(call.elements[i])) = 2

\* c is a container of zero size that nothing else would classify hidden,
\* and the pass reaches the scope it stands in
zeroSizeContainerInReach(c) ==
    /\ isIframe(c) \/ dom[c].shadowRoot
    /\ dom[c].rect.width = 0 /\ dom[c].rect.height = 0
    /\ dom[c].cssWidth = "0px" /\ dom[c].cssHeight = "0px"
    /\ ~dom[c].hidden /\ dom[c].display = "block" /\ dom[c].visibility = "visible"
    /\ dom[c].opacity = "1"
    /\ scopeIsTraversed(dom[c].root)

\* the pass returned every qualifying element that stands directly in the root of c
contentIsReturned(c) ==
    \A e \in Elems :
        (dom[e].root = c /\ qualifies(e, call.excludeElemsOutsideViewport))
            => e \in Range(call.elements)

\* C12 as stated: with the container flag a zero computed or bounding-box
\* size is no reason to classify an embedding iframe element or a shadow-root
\* host hidden, so the content it hosts is still traversed.
C12_ZeroSizeContainerIsTraversed ==
    calledDiscovery =>
        \A c \in Elems :
            zeroSizeContainerInReach(c) =>
                /\ ~calcIsHidden(c, frameContextOf(c), TRUE)
                /\ contentIsReturned(c)

\* C12 as the code has it: the zero-size step is skipped for a shadow-root
\* host, whose content is still traversed; an iframe element of zero size is
\* classified hidden, container flag or not, and nothing inside it is returned.
C12_ZeroSizeRelaxationIsForHostsOnly ==
    calledDiscovery =>
        \A c \in Elems :
            zeroSizeContainerInReach(c) =>
                IF dom[c].shadowRoot
                THEN /\ ~calcIsHidden(c, frameContextOf(c), TRUE)
                     /\ contentIsReturned(c)
                ELSE /\ calcIsHidden(c, frameContextOf(c), TRUE)
                     /\ \A e \in Elems : isInside(e, c) => e \notin Range(call.elements)

\* a pass reached a shadow-root host of zero size and returned the link in
\* its shadow root
C12_Witness ==
    /\ calledDiscovery
    /\ \E c \in Elems : zeroSizeContainerInReach(c) /\ dom[c].shadowRoot
                        /\ \E i \in DOMAIN call.elements : dom[call.elements[i]].root = c

-----------------------------------------------------------------------------
(* Claims about the exemptions and the override, under SpecVisibility *)

\* a select, a checkbox input, or a bounding box of zero width or zero height
isExemptFromOcclusion(element) ==
    \/ dom[element].tag = "select"
    \/ dom[element].tag = "input" /\ dom[element].type = "checkbox"
    \/ dom[element].rect.width = 0
    \/ dom[element].rect.height = 0

\* the hit-test oracle shows the element in the foreground at none of its five points
oracleShowsBackgroundOnly(element, iframeNode) ==
    \A i \in 1 .. 5 : ~foregroundAt(element, iframeNode, i)

\* C13: isBuriedInBackground returns false, whatever the hit-test oracle
\* answers, for every select element, every checkbox input and every element
\* whose bounding box has zero width or zero height; so when calcIsHidden
\* classifies such an element hidden, its own style or size is the ground,
\* never occlusion.
C13_ExemptElementsAreNeverBuried ==
    /\ (calledBuried /\ isExemptFromOcclusion(call.element)) => call.ret = FALSE
    /\ (calledHidden /\ isExemptFromOcclusion(call.element) /\ call.ret = TRUE)
            => seemsInvisibleByStyle(call.element)

\* isBuriedInBackground was called on a select with a box of positive size
\* that the oracle shows in the foreground nowhere
C13_Witness ==
    /\ calledBuried
    /\ dom[call.element].tag = "select"
    /\ dom[call.element].rect.width > 0 /\ dom[call.element].rect.height > 0
    /\ oracleShowsBackgroundOnly(call.element, call.iframeNode)
    /\ call.ret = FALSE

\* the frame context has an embedding iframe whose document cannot be accessed
frameIsInaccessible(iframeNode) ==
    iframeNode.iframe # NULL /\ accessThrows(iframeNode.iframe)

\* C14: when the element's frame context has an embedding iframe whose
\* document cannot be accessed at the time of the occlusion test, the test is
\* skipped: no document is hit-tested and the element is not classified buried.
C14_InaccessibleFrameSkipsTheOcclusionTest ==
    (calledBuried /\ frameIsInaccessible(call.iframeNode)) =>
        /\ documentsHitTested(call.element, call.iframeNode) = {}
        /\ call.ret = FALSE

\* the computed display of the element contains 'inline'
displayContainsInline(element) == dom[element].display \in {"inline", "inline-block"}

\* C15: an element that the earlier steps of calcIsHidden classify hidden is
\* reported visible exactly when its computed display contains 'inline' and
\* at least one of its children is not hidden, the child tested without the
\* container flag; with no such child, or another display, it stays hidden.
C15_OverrideExactlyForInlineWithVisibleChild ==
    (calledHidden
     /\ seemsInvisibleBeforeOverride(call.element, call.iframeNode, call.isDocHostElem)) =>
        call.ret = ~(displayContainsInline(call.element)
                     /\ someChildIsVisible(call.element, call.iframeNode))

\* calcIsHidden reported visible an inline-block element that the earlier
\* steps had classified hidden and that has a child that is not hidden
C15_Witness ==
    /\ calledHidden
    /\ seemsInvisibleBeforeOverride(call.element, call.iframeNode, call.isDocHostElem)
    /\ dom[call.element].display = "inline-block"
    /\ someChildIsVisible(call.element, call.iframeNode)
    /\ call.ret = FALSE

-----------------------------------------------------------------------------
(* Claims about the path resolver, under SpecXpath *)

calledXpath == call.op = "getFullXpath"

\* C16: for an element whose root node is the top document, getFullXpath
\* returns exactly the plain structural path of the element: no shadow-root
\* marker, no iframe prefix, no corrupted-node segment, whatever the cached
\* tree holds.
C16_PlainPathInTheTopDocument ==
    (calledXpath /\ dom[call.element].root = TopDoc) =>
        /\ ~call.threw
        /\ call.ret = getXPath(call.element)
        /\ \A i \in DOMAIN call.ret : call.ret[i].kind = "node"

\* getFullXpath was called on an element of the top document that has a
\* parent element and a like-tagged sibling, on a page with an iframe
C16_Witness ==
    /\ calledXpath
    /\ dom[call.element].root = TopDoc
    /\ dom[call.element].parent # NULL
    /\ call.ret[Len(call.ret)].nth > 0
    /\ \E f \in Elems : isIframe(f)
    /\ Len(call.ret) = 4

\* every node of the cached tree has its iframe element
treeIsIntact ==
    \A c \in DOMAIN cachedIframeTree.nodes : cachedIframeTree.nodes[c].iframe = c

\* the tree has a node for every iframe that embeds e
everyFrameHasNode(e) ==
    \A c \in containersOf(e) : isIframe(c) => c \in DOMAIN cachedIframeTree.nodes

RECURSIVE pathOncePerBoundary(_)
\* the path with the prefix of every boundary once, outermost first: the path
\* of the iframe element for an iframe, the path of the host and the marker
\* for a shadow root
pathOncePerBoundary(e) ==
    IF dom[e].root = TopDoc THEN getXPath(e)
    ELSE pathOncePerBoundary(dom[e].root)
         \o (IF isShadowRoot(dom[e].root) THEN <<ShadowRootMarker>> ELSE <<>>)
         \o getXPath(e)

\* C17: in the path getFullXpath returns, every boundary between the top
\* document and the element contributes its prefix exactly once, outermost
\* first: an iframe the path of the iframe element, a shadow root the path
\* of its host and '/shadow-root()'; also when the boundaries are mixed.
C17_EveryBoundaryPrefixedOnce ==
    (calledXpath /\ treeIsIntact /\ everyFrameHasNode(call.element)) =>
        /\ ~call.threw
        /\ call.ret = pathOncePerBoundary(call.element)

RECURSIVE onlyIframeAncestry(_)
\* e stands in the top document or in the document of an iframe that does
onlyIframeAncestry(e) ==
    \/ dom[e].root = TopDoc
    \/ isIframe(dom[e].root) /\ onlyIframeAncestry(dom[e].root)

RECURSIVE chainPrefix(_)
\* what the chain down to frame puts before the path: for every entry the
\* path of its iframe element, or the marker where the element is missing
chainPrefix(frame) ==
    IF frame = TopDoc THEN <<>>
    ELSE chainPrefix(dom[frame].root)
         \o (IF cachedIframeTree.nodes[frame].iframe = NULL
             THEN <<CorruptedNodeMarker>> ELSE getXPath(frame))

\* C18: when an entry of the iframe chain of an element has no iframe
\* element, getFullXpath does not throw: the segment
\* '/corrupted-node-in-iframe-tree()' stands in the position of that entry,
\* and the prefixes of the other entries and the element's own path are as
\* they are without the corruption.
C18_CorruptedEntryGivesMarkerInPlace ==
    (calledXpath /\ onlyIframeAncestry(call.element)) =>
        /\ ~call.threw
        /\ call.ret = chainPrefix(dom[call.element].root) \o getXPath(call.element)

\* getFullXpath was called on an element two iframes deep; the node of the
\* outer iframe has lost its element, the node of the inner one has not
C18_Witness ==
    /\ calledXpath
    /\ onlyIframeAncestry(call.element)
    /\ iframeDepth(call.element) = 2
    /\ cachedIframeTree.nodes[dom[call.element].root].iframe # NULL
    /\ cachedIframeTree.nodes[dom[dom[call.element].root].root].iframe = NULL
    /\ call.ret[1] = CorruptedNodeMarker
    /\ ~call.threw

-----------------------------------------------------------------------------
(* Claims about the descriptors of a pass, under Spec *)

\* C19: in the list one getInteractiveElements call returns, the descriptor
\* at position i (counted from 0) has interactivesIndex = i and describes the
\* i-th element of the pass, so the indices are exactly 0 .. n-1 without gaps
\* or repeats; this holds for every call, whatever earlier passes returned.
C19_IndexIsPositionInThePass ==
    calledDiscovery =>
        /\ Len(call.data) = Len(call.elements)
        /\ \A i \in DOMAIN call.data :
            /\ call.data[i].interactivesIndex = i - 1
            /\ call.data[i].element = call.elements[i]

\* a pass that followed an earlier pass (the list of hosts it had cached was
\* still there) returned two descriptors or more
C19_Witness ==
    /\ calledDiscovery
    /\ call.hostsBefore.defined
    /\ Len(call.data) >= 2
    /\ call.data[2].interactivesIndex = 1

-----------------------------------------------------------------------------
(* Claims about serializable descriptors, under SpecSerializable *)

calledSerializable == call.op = "makeElementDataSerializable"

\* C20: makeElementDataSerializable returns a record that has no 'element'
\* field and has every other field of its argument with the same value, and
\* it leaves its argument unchanged: the argument still holds its element
\* handle.
C20_HandleStrippedFromTheCopyOnly ==
    calledSerializable =>
        /\ DOMAIN call.ret = DOMAIN call.argument \ {"element"}
        /\ \A f \in DOMAIN call.ret : call.ret[f] = call.argument[f]
        /\ call.elementData = call.argument

\* the function was called on a descriptor that holds an element handle
C20_Witness ==
    /\ calledSerializable
    /\ "element" \in DOMAIN call.argument
    /\ call.elementData.element = 1
    /\ "xpath" \in DOMAIN call.ret

-----------------------------------------------------------------------------
(* Claims about descriptions, under SpecDescription *)

calledGetElementData == call.op = "getElementData"

\* a select that shows no text of a selected option
selectWithoutSelectedText(e) ==
    dom[e].tag = "select" /\ dom[e].selectedOptionText \in {NoText, EmptyText}

\* C21: a missing description is reported as data and never ends the call
\* with an exception: whenever getElementDescription returns null,
\* getElementData returns a descriptor whose description is
\* 'cross_origin_iframe' for an iframe with inaccessible content and
\* 'description_unavailable' otherwise; a select without selected-option
\* text is described by the rules of a generic element.
C21_MissingDescriptionIsData ==
    calledGetElementData =>
        /\ ~call.threw
        /\ ~getElementDescription(call.element).threw
        /\ getElementDescription(call.element).isNull =>
                call.ret.description =
                    IF dom[call.element].tag = "iframe" /\ ~dom[call.element].accessible
                    THEN <<"cross_origin_iframe">> ELSE <<"description_unavailable">>
        /\ ~getElementDescription(call.element).isNull =>
                call.ret.description = getElementDescription(call.element).text
        /\ selectWithoutSelectedText(call.element) =>
                getElementDescription(call.element)
                    = genericDescription(call.element, parentValueOf(call.element).text)

\* getElementData was called on an iframe that cannot be read and has
\* nothing to describe it, under a parent whose inner text is undefined
C21_Witness ==
    /\ calledGetElementData
    /\ dom[call.element].tag = "iframe" /\ ~dom[call.element].accessible
    /\ dom[call.element].hasParent /\ dom[call.element].parentInnerText = NoText
    /\ getElementDescription(call.element).isNull
    /\ call.ret.description = <<"cross_origin_iframe">>

-----------------------------------------------------------------------------
(* Claims about findRealActiveElement, under SpecFocus *)

calledFocus == call.op = "findRealActiveElement"

RECURSIVE focusedThrough(_)
\* e is the active element of its scope, and the scope is the top document
\* or belongs to a container that is itself focused through and whose
\* content can be read
focusedThrough(e) ==
    /\ activeElement[dom[e].root] = e
    /\ \/ dom[e].root = TopDoc
       \/ /\ focusedThrough(dom[e].root)
          /\ dom[dom[e].root].shadowRoot \/ dom[dom[e].root].accessible

\* neither a shadow-root host, nor an iframe, nor a body
isFocusableLeaf(e) == ~dom[e].shadowRoot /\ ~isIframe(e) /\ dom[e].tag # "body"

\* C22: findRealActiveElement returns the innermost focused element, which is
\* never a shadow-root host, an iframe or a body; it returns null exactly when
\* no such element is focused through every scope around it (a body
\* innermost, an iframe whose content cannot be read, a scope with no active
\* element)
C22_InnermostFocusedElementOrNull ==
    calledFocus =>
        /\ call.ret # NULL =>
              /\ call.ret \in Elems
              /\ isFocusableLeaf(call.ret)
              /\ focusedThrough(call.ret)
        /\ call.ret = NULL => ~(\E e \in Elems : isFocusableLeaf(e) /\ focusedThrough(e))

\* the input inside two containers was returned
C22_Witness ==
    /\ calledFocus
    /\ call.ret # NULL
    /\ dom[call.ret].root # TopDoc
    /\ dom[dom[call.ret].root].root # TopDoc

\* null was returned for an iframe whose content cannot be read
C22_WitnessInaccessible ==
    /\ calledFocus
    /\ call.ret = NULL
    /\ \E e \in Elems : isIframe(e) /\ ~dom[e].accessible /\ focusedThrough(e)

\* null was returned for the body of an embedded document
C22_WitnessBody ==
    /\ calledFocus
    /\ call.ret = NULL
    /\ \E e \in Elems : dom[e].tag = "body" /\ dom[e].root # TopDoc /\ focusedThrough(e)

-----------------------------------------------------------------------------
(* Claims about formatChoices, under SpecChoices *)

calledFormatChoices == call.op = "formatChoices"

someIdOutOfRange ==
    \E k \in DOMAIN call.candidateIds :
        call.candidateIds[k] < 0 \/ call.candidateIds[k] >= Len(call.elements)

\* C23: formatChoices throws, with no output, when some candidate id is
\* negative or not less than the number of elements; otherwise it returns one
\* pair per candidate id, in the order of candidateIds, whose first component
\* is that id
C23_ThrowsOrOnePairPerId ==
    calledFormatChoices =>
        /\ call.threw <=> someIdOutOfRange
        /\ call.threw => call.ret = <<>>
        /\ ~call.threw =>
              /\ Len(call.ret) = Len(call.candidateIds)
              /\ \A k \in DOMAIN call.ret :
                    \E id \in 0 .. MaxChoiceElements :
                        /\ call.ret[k][1] = ToString(id)
                        /\ id = call.candidateIds[k]

\* three ids in range, not in increasing order, were formatted
C23_Witness ==
    /\ calledFormatChoices
    /\ ~call.threw
    /\ Len(call.ret) = 3
    /\ call.candidateIds[1] > call.candidateIds[2]

\* a list with one bad id after two good ones threw
C23_WitnessThrow ==
    /\ calledFormatChoices
    /\ call.threw
    /\ Len(call.candidateIds) = 3
    /\ call.candidateIds[1] = 0 /\ call.candidateIds[2] = 1 /\ call.candidateIds[3] = 2
    /\ Len(call.elements) = 2

-----------------------------------------------------------------------------
(* Claims about the option names, under SpecOptions *)

\* the name _formatOptions wrote for 'none of the above', and the names it
\* wrote for the choices
noneOfAboveNameIn(text) == text[2]
choiceNamesIn(text, n) == {text[5 + 4 * (k - 1) + 1] : k \in 1 .. n}

\* C24: getIndexFromOptionName inverts _generateOptionName on 0..701, so the
\* name _formatOptions gives to 'none of the above' differs from the name of
\* every choice; _generateOptionName throws above 701; getIndexFromOptionName
\* returns undefined for every string that is not one or two capital letters
C24_OptionNameRoundTrip ==
    /\ call.op = "_generateOptionName" =>
          (call.threw <=> call.index > 701)
    /\ (call.op = "getIndexFromOptionName" /\ call.generatedFor # -1) =>
          /\ call.generatedFor \in 0 .. 701
          /\ call.ret = [defined |-> TRUE, value |-> call.generatedFor]
    /\ call.op = "getIndexFromOptionName" =>
          (call.ret = Undefined <=>
              ~(/\ Len(call.optName) \in {1, 2}
                /\ \A i \in DOMAIN call.optName : call.optName[i] \in 65 .. 90))
    /\ (call.op = "_formatOptions" /\ ~call.threw) =>
          /\ Cardinality(choiceNamesIn(call.text, call.choices)) = call.choices
          /\ noneOfAboveNameIn(call.text) \notin choiceNamesIn(call.text, call.choices)

\* the name of index 701 (ZZ) was generated and turned back into 701
C24_Witness ==
    /\ call.op = "getIndexFromOptionName"
    /\ call.generatedFor = 701
    /\ call.optName = <<90, 90>>
    /\ call.ret = [defined |-> TRUE, value |-> 701]

\* _generateOptionName threw for 702
C24_WitnessThrow == call.op = "_generateOptionName" /\ call.threw /\ call.index = 702

\* a capital letter followed by a line feed gave undefined
C24_WitnessUndefined ==
    /\ call.op = "getIndexFromOptionName"
    /\ call.optName = <<65, 10>>
    /\ call.ret = Undefined

\* 701 choices were formatted
C24_WitnessOptions == call.op = "_formatOptions" /\ ~call.threw /\ call.choices = 701

-----------------------------------------------------------------------------
(* Claims about repeated discovery passes, under SpecContainers *)

\* the bounding boxes the descriptors of a pass give to element e, in the
\* order of the descriptors
boxesOf(data, e) ==
    LET ofElement == SelectSeq(data, LAMBDA d : d.element = e)
    IN  [k \in DOMAIN ofElement |-> ofElement[k].boundingBox]

\* C25: on an unchanged page a discovery pass that follows another one gives
\* every element the bounding box the pass before gave it, and no pass leaves
\* a documentHostChain annotation behind
C25_RepeatedPassesGiveTheSameBoxes ==
    [][call'.op = "getInteractiveElements" =>
          /\ documentHostChain' = <<>>
          /\ (call.op = "getInteractiveElements" /\ dom' = dom) =>
                \A e \in Elems :
                    \/ boxesOf(call.data, e) = <<>>
                    \/ boxesOf(call'.data, e) = <<>>
                    \/ boxesOf(call'.data, e) = boxesOf(call.data, e)]_vars

\* a pass that began with the caches of the pass before it returned a link
\* that stands two iframes deep, at its place in the top window
C25_Witness ==
    /\ call.op = "getInteractiveElements"
    /\ call.hostsBefore.defined
    /\ documentHostChain = <<>>
    /\ \E k \in DOMAIN call.data :
          LET e == call.data[k].element
          IN  /\ dom[e].root # TopDoc /\ isIframe(dom[e].root)
              /\ dom[dom[e].root].root # TopDoc /\ isIframe(dom[dom[e].root].root)
              /\ call.data[k].boundingBox.tLx
                    = dom[e].rect.x + dom[dom[e].root].rect.x + dom[dom[dom[e].root].root].rect.x

-----------------------------------------------------------------------------
(* Claims about the side panel, under SpecPanel *)

\* the step is the handling of the named click or event
handles(op) == call'.op = op

\* the handler of the step posted a message of the type
posts(type) == \E k \in DOMAIN call'.posted : call'.posted[k].type = type

\* the step moves the state to s from another state
enters(s) == sidePanel'.state = s /\ sidePanel.state # s

isBlank(text) == \A i \in DOMAIN text : isWhitespace(text[i])

\* C26: a click on start posts START_TASK, or moves the state to
\* WAIT_FOR_TASK_STARTED, only when the task specification is not blank, the
\* state is IDLE, a port exists and serviceWorkerReady is true; the message
\* and the move come together
C26_StartOnlyWhenIdleAndReady ==
    [][handles("startTaskClickHandler") =>
          /\ (posts("START_TASK") \/ enters("WAIT_FOR_TASK_STARTED")) =>
                /\ ~isBlank(sidePanel.taskSpecField)
                /\ sidePanel.state = "IDLE"
                /\ sidePanel.serviceWorkerPort # "undefined"
                /\ sidePanel.serviceWorkerReady
          /\ posts("START_TASK") <=> enters("WAIT_FOR_TASK_STARTED")
          /\ posts("START_TASK") =>
                call'.posted = <<[type |-> "START_TASK",
                                  taskSpecification |-> sidePanel.taskSpecField]>>]_vars

\* a task was started from the idle panel
C26_Witness ==
    /\ call.op = "startTaskClickHandler"
    /\ call.posted = <<[type |-> "START_TASK", taskSpecification |-> <<"t">>]>>
    /\ sidePanel.state = "WAIT_FOR_TASK_STARTED"

TaskInProgressStates ==
    {"WAIT_FOR_TASK_STARTED", "WAIT_FOR_PENDING_ACTION_INFO", "WAIT_FOR_MONITOR_RESPONSE",
     "WAIT_FOR_ACTION_PERFORMED_RECORD"}

\* C27: a click on kill posts KILL_TASK, or moves the state to
\* WAIT_FOR_TASK_ENDED, only when a task is in progress; in every other state
\* (the initialisation of the connection included) it posts nothing and
\* leaves the state as it is
C27_KillOnlyWhileATaskIsInProgress ==
    [][handles("killTaskClickHandler") =>
          /\ (posts("KILL_TASK") \/ enters("WAIT_FOR_TASK_ENDED")) =>
                sidePanel.state \in TaskInProgressStates
          /\ sidePanel.state \notin TaskInProgressStates =>
                (call'.posted = <<>> /\ sidePanel'.state = sidePanel.state)]_vars

\* C28: the transitions on the expected messages of the controller:
\* TASK_STARTED in WAIT_FOR_TASK_STARTED leads to WAIT_FOR_PENDING_ACTION_INFO
\* when successful and to IDLE when not; ACTION_CANDIDATE leads to
\* WAIT_FOR_MONITOR_RESPONSE in monitor mode and to
\* WAIT_FOR_ACTION_PERFORMED_RECORD without it; TASK_HISTORY_ENTRY leads to
\* WAIT_FOR_PENDING_ACTION_INFO and appends one entry to the history
C28_TransitionsOnExpectedMessages ==
    [][handles("handleAgentControllerMsg") =>
          /\ (call'.input.type = "TASK_STARTED" /\ sidePanel.state = "WAIT_FOR_TASK_STARTED") =>
                sidePanel'.state = IF call'.input.success THEN "WAIT_FOR_PENDING_ACTION_INFO"
                                   ELSE "IDLE"
          /\ (/\ call'.input.type = "ACTION_CANDIDATE"
              /\ sidePanel.state \in {"WAIT_FOR_PENDING_ACTION_INFO", "WAIT_FOR_MONITOR_RESPONSE"}) =>
                sidePanel'.state = IF sidePanel.cachedMonitorMode THEN "WAIT_FOR_MONITOR_RESPONSE"
                                   ELSE "WAIT_FOR_ACTION_PERFORMED_RECORD"
          /\ (/\ call'.input.type = "TASK_HISTORY_ENTRY"
              /\ sidePanel.state \in {"WAIT_FOR_ACTION_PERFORMED_RECORD",
                                      "WAIT_FOR_MONITOR_RESPONSE"}) =>
                /\ sidePanel'.state = "WAIT_FOR_PENDING_ACTION_INFO"
                /\ Len(sidePanel'.historyList) = Len(sidePanel.historyList) + 1
                /\ SubSeq(sidePanel'.historyList, 1, Len(sidePanel.historyList))
                      = sidePanel.historyList]_vars

\* the record of a performed action was added to the history after the
\* entry of the start of the task
C28_Witness ==
    /\ call.op = "handleAgentControllerMsg"
    /\ call.input.type = "TASK_HISTORY_ENTRY"
    /\ sidePanel.state = "WAIT_FOR_PENDING_ACTION_INFO"
    /\ Len(sidePanel.historyList) = 2
    /\ sidePanel.historyList[1].class = "task_start"
    /\ sidePanel.historyList[2].class = ""

\* C29: a click on approve or reject posts its message only in monitor mode,
\* in WAIT_FOR_MONITOR_RESPONSE and with a port; the approval leads to
\* WAIT_FOR_ACTION_PERFORMED_RECORD, the rejection to
\* WAIT_FOR_PENDING_ACTION_INFO and carries the feedback text; the state
\* comes back to WAIT_FOR_MONITOR_RESPONSE from another state only with a new
\* action candidate, so one candidate gets one of the two messages at most
C29_OneMonitorAnswerPerCandidate ==
    [][/\ (handles("monitorApproveButtonClickHandler")
            \/ handles("monitorRejectButtonClickHandler")) =>
              /\ call'.posted # <<>> =>
                    /\ sidePanel.cachedMonitorMode
                    /\ sidePanel.state = "WAIT_FOR_MONITOR_RESPONSE"
                    /\ sidePanel.serviceWorkerPort # "undefined"
                    /\ sidePanel'.state # "WAIT_FOR_MONITOR_RESPONSE"
              /\ (handles("monitorApproveButtonClickHandler") /\ call'.posted # <<>>) =>
                    /\ call'.posted = <<[type |-> "MONITOR_APPROVED"]>>
                    /\ sidePanel'.state = "WAIT_FOR_ACTION_PERFORMED_RECORD"
              /\ (handles("monitorRejectButtonClickHandler") /\ call'.posted # <<>>) =>
                    /\ call'.posted = <<[type |-> "MONITOR_REJECTED",
                                         feedback |-> sidePanel.monitorFeedbackField]>>
                    /\ sidePanel'.state = "WAIT_FOR_PENDING_ACTION_INFO"
       /\ (posts("MONITOR_APPROVED") \/ posts("MONITOR_REJECTED")) =>
              (handles("monitorApproveButtonClickHandler")
                \/ handles("monitorRejectButtonClickHandler"))
       /\ enters("WAIT_FOR_MONITOR_RESPONSE") =>
              (handles("handleAgentControllerMsg") /\ call'.input.type = "ACTION_CANDIDATE")]_vars

\* a candidate was rejected with a feedback text
C29_Witness ==
    /\ call.op = "monitorRejectButtonClickHandler"
    /\ call.posted = <<[type |-> "MONITOR_REJECTED", feedback |-> "no"]>>
    /\ sidePanel.state = "WAIT_FOR_PENDING_ACTION_INFO"

\* the states in which the panel expects a message of the type
expectedIn(type) ==
    CASE type = "AGENT_CONTROLLER_READY" -> {"WAIT_FOR_CONNECTION_INIT"}
      [] type = "TASK_STARTED" -> {"WAIT_FOR_TASK_STARTED"}
      [] type = "ACTION_CANDIDATE" -> {"WAIT_FOR_PENDING_ACTION_INFO", "WAIT_FOR_MONITOR_RESPONSE"}
      [] type = "TASK_HISTORY_ENTRY" ->
            {"WAIT_FOR_ACTION_PERFORMED_RECORD", "WAIT_FOR_MONITOR_RESPONSE"}
      [] OTHER -> SidePanelMgrState

\* C30: a message of the controller that arrives in a state in which it is
\* not expected leaves the state, serviceWorkerReady, the history list and
\* the buttons as they are, and nothing is posted
C30_UnexpectedMessageChangesNothing ==
    [][(handles("handleAgentControllerMsg")
          /\ sidePanel.state \notin expectedIn(call'.input.type)) =>
            /\ sidePanel'.state = sidePanel.state
            /\ sidePanel'.serviceWorkerReady = sidePanel.serviceWorkerReady
            /\ sidePanel'.historyList = sidePanel.historyList
            /\ sidePanel'.startButtonDisabled = sidePanel.startButtonDisabled
            /\ sidePanel'.killButtonDisabled = sidePanel.killButtonDisabled
            /\ sidePanel'.monitorApproveButtonDisabled = sidePanel.monitorApproveButtonDisabled
            /\ sidePanel'.monitorRejectButtonDisabled = sidePanel.monitorRejectButtonDisabled
            /\ call'.posted = <<>>]_vars

\* a TASK_STARTED message was handled while a task was running, with the
\* kill button enabled and an entry in the history
C30_Witness ==
    /\ call.op = "handleAgentControllerMsg"
    /\ call.input.type = "TASK_STARTED"
    /\ sidePanel.state = "WAIT_FOR_ACTION_PERFORMED_RECORD"
    /\ ~sidePanel.killButtonDisabled
    /\ Len(sidePanel.historyList) = 1

\* the task display after reset(): the start button enabled, the kill button
\* disabled, the pending action cleared, the monitor controls disabled
taskDisplayIsReset(p) ==
    /\ ~p.startButtonDisabled
    /\ p.killButtonDisabled
    /\ p.pendingActionDiv = [textContent |-> "", title |-> ""]
    /\ p.monitorFeedbackFieldDisabled
    /\ p.monitorApproveButtonDisabled
    /\ p.monitorRejectButtonDisabled

\* C31: a TASK_ENDED or ERROR message, in any state, leaves the panel in IDLE
\* with the task display reset; TASK_ENDED appends one 'Task ended' entry to
\* the history, except in WAIT_FOR_TASK_STARTED, where (as for ERROR) the
\* history stays as it is
C31_EndOrErrorResetsThePanel ==
    [][(handles("handleAgentControllerMsg") /\ call'.input.type \in {"TASK_ENDED", "ERROR"}) =>
          /\ sidePanel'.state = "IDLE"
          /\ taskDisplayIsReset(sidePanel')
          /\ IF call'.input.type = "TASK_ENDED" /\ sidePanel.state # "WAIT_FOR_TASK_STARTED"
             THEN /\ Len(sidePanel'.historyList) = Len(sidePanel.historyList) + 1
                  /\ SubSeq(sidePanel'.historyList, 1, Len(sidePanel.historyList))
                        = sidePanel.historyList
                  /\ sidePanel'.historyList[Len(sidePanel'.historyList)].textContent = "Task ended"
                  /\ sidePanel'.historyList[Len(sidePanel'.historyList)].class = "task_end"
             ELSE sidePanel'.historyList = sidePanel.historyList]_vars

\* a started task has ended: its two entries are in the history
C31_Witness ==
    /\ call.op = "handleAgentControllerMsg"
    /\ call.input.type = "TASK_ENDED"
    /\ sidePanel.state = "IDLE"
    /\ Len(sidePanel.historyList) = 2
    /\ sidePanel.historyList[1].class = "task_start"
    /\ sidePanel.historyList[2].class = "task_end"

\* C32: after handleAgentControllerDisconnect the task display is reset, the
\* state is WAIT_FOR_CONNECTION_INIT, serviceWorkerReady is false and, unless
\* chrome.runtime.connect threw, the port is a new one; and serviceWorkerReady
\* is never true in WAIT_FOR_CONNECTION_INIT
C32_DisconnectLeadsToConnectionInit ==
    /\ sidePanel.state = "WAIT_FOR_CONNECTION_INIT" => ~sidePanel.serviceWorkerReady
    /\ call.op = "handleAgentControllerDisconnect" =>
          /\ sidePanel.state = "WAIT_FOR_CONNECTION_INIT"
          /\ ~sidePanel.serviceWorkerReady
          /\ taskDisplayIsReset(sidePanel)
          /\ sidePanel.taskSpecField = EmptyText
          /\ ~call.input.connectThrows => sidePanel.serviceWorkerPort = "connected"

\* the port of a panel that had started a task (so the controller had been
\* ready) was disconnected, and the connection was opened again
C32_Witness ==
    /\ call.op = "handleAgentControllerDisconnect"
    /\ sidePanel.serviceWorkerPort = "connected"
    /\ Len(sidePanel.historyList) >= 1
    /\ sidePanel.historyList[1].class = "task_start"

\* C33: a click on start with a task specification that is not blank, while
\* no port exists, opens the connection again: unless chrome.runtime.connect
\* throws, a port exists after the click
C33_StartClickReconnectsWhenPortIsMissing ==
    [][(/\ handles("startTaskClickHandler")
        /\ ~isBlank(sidePanel.taskSpecField)
        /\ sidePanel.serviceWorkerPort = "undefined"
        /\ ~call'.input.connectThrows) =>
            sidePanel'.serviceWorkerPort = "connected"]_vars

\* C35: whenever the state is WAIT_FOR_MONITOR_RESPONSE, cachedMonitorMode is
\* true
C35_WaitingForMonitorImpliesMonitorMode ==
    sidePanel.state = "WAIT_FOR_MONITOR_RESPONSE" => sidePanel.cachedMonitorMode

-----------------------------------------------------------------------------
(* Claims about the handlers call by call, under SpecMutex and SpecMutexFair *)

readyIsOnItsWay ==
    \E k \in DOMAIN portInbox : portInbox[k].message.type = "AGENT_CONTROLLER_READY"

\* C34: when AGENT_CONTROLLER_READY is on its way on the port of a panel that
\* is not ready yet, the panel is ready and IDLE at some later time, unless
\* the port is disconnected first
C34_ReadyMessageMakesThePanelReady ==
    (/\ sidePanel.serviceWorkerPort = "connected"
     /\ ~sidePanel.serviceWorkerReady
     /\ readyIsOnItsWay)
        ~> \/ sidePanel.serviceWorkerReady /\ sidePanel.state = "IDLE"
           \/ sidePanel.serviceWorkerPort # "connected"

\* the step runs a callback of the mutex
runsCallback == call'.phase = "callback"

\* the messages whose callbacks wait in the mutex, by their ranks
ranksWaiting ==
    {mutex[k].seq : k \in {k \in DOMAIN mutex : mutex[k].handler = "handleAgentControllerMsg"}}

-----------------------------------------------------------------------------
(* Claims about the descent of the hit test, under SpecDescent *)

calledActualElementFromPoint == call.op = "actualElementFromPoint"

\* the point of the top viewport in the coordinates of the document of the iframe
inSpaceOf(iframe, x, y) ==
    [x |-> x - coordsOffsetFromViewport(iframe).x, y |-> y - coordsOffsetFromViewport(iframe).y]

\* C37: every call that actualElementFromPoint(x, y) makes of itself for the
\* document of an iframe has for its point (x, y) less the offset of the
\* iframe from the top viewport, at each depth of nesting
C37_EachIframeTestedAtThePointInItsOwnSpace ==
    calledActualElementFromPoint =>
        \A k \in DOMAIN call.calls :
            (call.calls[k].searchDom # TopDoc /\ isIframe(call.calls[k].searchDom)) =>
                [x |-> call.calls[k].x, y |-> call.calls[k].y]
                    = inSpaceOf(call.calls[k].searchDom, call.x, call.y)

\* at the first level of nesting the point is the one of the claim
C37_FirstLevelTestedAtThePointInItsOwnSpace ==
    (calledActualElementFromPoint /\ Len(call.calls) >= 2) =>
        [x |-> call.calls[2].x, y |-> call.calls[2].y]
            = inSpaceOf(call.calls[2].searchDom, call.x, call.y)

\* a point over the link of an iframe that does not stand at the origin
C37_FirstLevelReached ==
    /\ calledActualElementFromPoint
    /\ Len(call.calls) = 2
    /\ coordsOffsetFromViewport(call.calls[2].searchDom).x > 0
    /\ call.element # NULL
    /\ dom[call.element].tag = "a"

=============================================================================
